---------------------------- MODULE Spec2Model ----------------------------
(***************************************************************************)
(* A model of the voltaro OCPP 1.6-J Central System.                       *)
(*                                                                         *)
(* The store (ChargePoint, IdTag, Session and MeterValue rows), the        *)
(* process-local connection registry and the inbound handlers of           *)
(* app/handlers/charge_point.py are modelled at the granularity of the     *)
(* await points of the Python code: every `await` on the store is a point  *)
(* where another connection's handler may run.  A store operation may      *)
(* raise (dbOk = FALSE); the handlers' except branches are modelled.       *)
(*                                                                         *)
(* The specifications share the variables:                                 *)
(*   SpecTx   - StartTransaction / StopTransaction handlers running on two *)
(*              live connections (different charge points);                *)
(*   SpecConn - the connection lifecycle of app/main_with_cli.py           *)
(*              (register, read loop, unregister in the finalizer);        *)
(*   SpecAuth - Authorize Calls on the two live connections;               *)
(*   SpecCs   - the operator commands of app/central_system.py while one   *)
(*              charge point connects and disconnects;                     *)
(*   SpecAccept - the handshake of on_connect in app/main_with_cli.py over *)
(*              upgrade requests (path, Sec-WebSocket-Protocol header);    *)
(*   SpecApi  - on_connect of app/main.py, the server the API starts;      *)
(*   SpecMsg  - the outbound Call path under two concurrent commands;      *)
(*   SpecRead - the read loop and the dispatch of inbound Calls;          *)
(*   SpecStore - the MeterValues, StatusNotification, Heartbeat,           *)
(*              BootNotification and StopTransaction handlers on two       *)
(*              connections, one of a charge point without a row;          *)
(*   SpecAlloc - StartTransaction with the colliding turns of the          *)
(*              transaction-id loop, under fairness of draw and commit;    *)
(*   SpecLife - every handler and the operator commands together.          *)
(*                                                                         *)
(* The message layer (UniqueId correlation, timeouts, write serialization, *)
(* the read loop) is the package ocpp, a dependency whose source is not    *)
(* part of the repository: SpecMsg and SpecRead follow sections 4.1 and 5  *)
(* of the specification for it, and the repository's code at the call      *)
(* sites (cp.call, cp.start, the handlers).                                *)
(***************************************************************************)
EXTENDS Integers, Sequences, FiniteSets, TLC

(***************************************************************************)
(* Bounds of the model.                                                    *)
(***************************************************************************)
\* Inbound Calls handled in one behaviour of SpecTx.
MaxCalls == 3
\* Number of consecutive ids at the low end of the transaction-id range
\* that random.randint may return in the model (the top of the range,
\* MaxTxId, is always among the draws).
TxIdSpan == 1

(***************************************************************************)
(* Program constants.                                                      *)
(***************************************************************************)
\* random.randint(100000, 999999)
MinTxId == 100000
MaxTxId == 999999
\* energy_wh / 1000.0
WhPerKWh == 1000

(***************************************************************************)
(* Nullable columns: None is the empty tuple, Some(v) a one-element tuple. *)
(***************************************************************************)
None == << >>
Some(v) == << v >>
Get(o) == o[1]

(***************************************************************************)
(* Time.  Instants are whole hours.  A timestamp on the wire is an ISO     *)
(* 8601 string: its wall-clock reading `local`, and its zone designator:   *)
(* "Z", a numeric offset of `off` hours, or none.                          *)
(***************************************************************************)
utc_now_naive == 1000

WireZ(t) == [local |-> t, off |-> 0, suffix |-> "Z"]
WireOffset(t, o) == [local |-> t, off |-> o, suffix |-> "offset"]
WireNaive(t) == [local |-> t, off |-> 0, suffix |-> "none"]

\* utc_now_iso(): datetime.now(utc).isoformat().replace("+00:00", "Z")
utc_now_iso == WireZ(utc_now_naive)

\* datetime.isoformat() of a naive datetime: no zone designator
isoformat(dt) == WireNaive(dt)

\* parse_ocpp_timestamp: "Z" becomes +00:00; an aware datetime is converted
\* to UTC and stripped of its zone; a naive one is taken as it is.
parse_ocpp_timestamp(ts) ==
    IF ts.suffix = "Z" THEN ts.local
    ELSE IF ts.suffix = "offset" THEN ts.local - ts.off
    ELSE ts.local

(***************************************************************************)
(* Connections and charge points.                                          *)
(***************************************************************************)
ChargePointIds == {"CP001", "CP002"}
\* c1 and c3 are two WebSocket sessions of the same charge point.
Conns == {"c1", "c2", "c3"}
ConnCp == [c \in Conns |-> IF c = "c2" THEN "CP002" ELSE "CP001"]
\* The connections whose read loops run in SpecTx.
TxConns == {"c1", "c2"}

(***************************************************************************)
(* The id_tags table (tests/setup_test_tags.py).  The Central System never *)
(* writes it.                                                              *)
(***************************************************************************)
IdTagRows ==
    { [id |-> 1, tag |-> "VALID001", status |-> "Accepted",
       expiry_date |-> Some(utc_now_naive + 365 * 24)],
      [id |-> 3, tag |-> "BLOCKED001", status |-> "Blocked",
       expiry_date |-> None],
      [id |-> 4, tag |-> "EXPIRED001", status |-> "Accepted",
       expiry_date |-> Some(utc_now_naive - 30 * 24)],
      \* status and expiry_date are independent columns: a tag that was
      \* blocked and whose expiry date has since passed.
      [id |-> 7, tag |-> "BLOCKEDEXP", status |-> "Blocked",
       expiry_date |-> Some(utc_now_naive - 24)] }
\* "UNKNOWN" is a tag without a row.
NoTag == ""

(***************************************************************************)
(* Inputs of the inbound Calls: the payloads a charge point sends.         *)
(***************************************************************************)
NoReason == ""

\* StartTransaction.req: both connectors and two meter readings with the
\* Accepted tag, and every other tag once.
StartTransactionPayloads ==
    { [connector_id |-> 1, id_tag |-> "VALID001", meter_start |-> 1000,
       timestamp |-> WireZ(10)],
      [connector_id |-> 2, id_tag |-> "VALID001", meter_start |-> 2000,
       timestamp |-> WireZ(10)],
      [connector_id |-> 1, id_tag |-> "BLOCKED001", meter_start |-> 1000,
       timestamp |-> WireZ(10)],
      [connector_id |-> 1, id_tag |-> "EXPIRED001", meter_start |-> 1000,
       timestamp |-> WireZ(10)],
      [connector_id |-> 1, id_tag |-> "UNKNOWN", meter_start |-> 1000,
       timestamp |-> WireZ(10)] }

\* StopTransaction.req without its transactionId: a plain stop at 11:00Z,
\* and a stop at 11:00+02:00 (09:00Z, before the start) with a reason, an
\* idTag and one transactionData reading.
StopTransactionPayloads ==
    { [timestamp |-> WireZ(11), meter_stop |-> 16000, reason |-> NoReason,
       id_tag |-> NoTag, transaction_data |-> << >>],
      [timestamp |-> WireOffset(11, 2), meter_stop |-> 1500,
       reason |-> "Remote", id_tag |-> "BLOCKED001",
       transaction_data |->
           << [timestamp |-> WireZ(11),
               sampledValue |-> << [value |-> "16000", context |-> None] >>] >>] }

\* The ids random.randint(MinTxId, MaxTxId) returns in the model.
TxIdDraws == (MinTxId .. (MinTxId + TxIdSpan - 1)) \cup {MaxTxId}

VARIABLES
    sessions,        \* table sessions: sequence of rows, row i has id i
    meter_values,    \* table meter_values: sequence of rows
    charge_points,   \* table charge_points: cp id -> None or Some(row)
    registry,        \* _connected_charge_points: cp id -> None or Some(conn)
    conn,            \* position of each connection in on_connect
    accepted,        \* history: the connections in the order they registered
    handler,         \* the inbound Call each connection is handling
    last,            \* the last response written to a socket
    issued,          \* history: the Accepted StartTransaction responses
    calls,           \* number of inbound Calls read so far
    op,              \* the operator command in progress (CentralSystem)
    result,          \* what the last operator command returned
    outbox,          \* the last Call sent to a charge point
    cmds,            \* number of operator commands issued so far
    tasks,           \* the commands that use the outbound Call path
    call_table,      \* outstanding-Call table: UniqueId -> awaiter
    next_unique_id,  \* the next fresh UniqueId
    write_lock,      \* the holder of the write path, or None
    frames_out,      \* the Call frames written to the socket, in order
    frames_in,       \* the responses on their way to the read task
    history,         \* history: UniqueIds timed out, responses delivered
                     \* and dropped
    inbox,           \* inbound Calls sent and not yet read, per connection
    in_progress,     \* the inbound Calls being handled, per connection
    written,         \* the CallResults written, per connection, in order
    store_log,       \* history: the store effects of the handlers, in order,
                     \* per connection
    connector_statuses  \* table connector_statuses: sequence of rows

vars == << sessions, meter_values, charge_points, registry, conn, accepted,
           handler, last, issued, calls, op, result, outbox, cmds,
           tasks, call_table, next_unique_id, write_lock, frames_out, frames_in,
           history, inbox, in_progress, written, store_log,
           connector_statuses >>

connVars == << charge_points, registry, conn, accepted >>
txVars == << sessions, meter_values, handler, last, issued, calls >>
csVars == << op, result, outbox, cmds >>
outVars == << tasks, call_table, next_unique_id, write_lock, frames_out,
             frames_in, history >>
inVars == << inbox, in_progress, written, store_log >>
msgVars == << outVars, inVars >>
logVars == << connector_statuses >>


(***************************************************************************)
(* Rows and records.                                                       *)
(***************************************************************************)
\* A connection that is between two inbound Calls.
Idle ==
    [pc |-> "idle", action |-> "", connector_id |-> 0, id_tag |-> NoTag,
     meter |-> 0, timestamp |-> WireNaive(0), transaction_id |-> 0, reason |-> NoReason,
     transaction_data |-> << >>, found |-> 0, resolved |-> ""]
\* found: the id of the Session row the handler loaded (0: none);
\* resolved: the status _get_id_tag_info returned for the Call's tag.

NoResponse ==
    [conn |-> "", call |-> Idle, kind |-> "", transaction_id |-> 0,
     id_tag_info |-> None, committed |-> FALSE]

\* No operator command in progress.  The fields of a command: its
\* arguments; reads, the number of store reads it has made; sent, whether
\* it has sent a Call; and what it found: charge_point, the registry entry;
\* row, the ChargePoint row ("absent", "offline", "online", or "error" when
\* the read raised); validation, the result of validate_id_tag;
\* session, the Session row ("absent", "inactive", "active" or "error");
\* response, what came back for the Call.
NoCommand ==
    [pc |-> "idle", command |-> "", charge_point_id |-> "", id_tag |-> NoTag,
     connector_id |-> 0, transaction_id |-> 0, availability_type |-> "",
     reads |-> 0, sent |-> FALSE, charge_point |-> None, row |-> "unread",
     validation |-> None, session |-> "unread", response |-> None]

\* Nothing returned yet.
NoResult ==
    [op |-> NoCommand, raised |-> FALSE, success |-> None, status |-> "",
     error |-> None, id_tag_status |-> None]

\* Nothing sent yet.
NoCall == [conn |-> "", action |-> "", payload |-> << >>]

\* The commands that use the outbound Call path at the same time.
Tasks == {"t1", "t2"}

NoTask == [pc |-> "idle", unique_id |-> 0, result |-> NoResult]

NoHistory == [timed_out |-> {}, answered |-> {}, delivered |-> {},
              dropped |-> {}]

\* No command uses the outbound Call path.
InitOut ==
    /\ tasks = [t \in Tasks |-> NoTask]
    /\ call_table = << >>
    /\ next_unique_id = 1
    /\ write_lock = None
    /\ frames_out = << >>
    /\ frames_in = {}
    /\ history = NoHistory

\* No connection has been sent an inbound Call.
InitIn ==
    /\ inbox = [c \in Conns |-> << >>]
    /\ in_progress = [c \in Conns |-> {}]
    /\ written = [c \in Conns |-> << >>]
    /\ store_log = [c \in Conns |-> << >>]

InitLayer == InitOut /\ InitIn /\ connector_statuses = << >>

\* Session(...) as constructed by on_start_transaction; the other columns
\* take their defaults (nullable columns NULL).
NewSessionNoMeterStart(id, transaction_id, charge_point_id, id_tag_id, connector_id, meter_start, start_time) ==
    [id |-> id, transaction_id |-> transaction_id,
     charge_point_id |-> charge_point_id, id_tag_id |-> id_tag_id,
     connector_id |-> connector_id, meter_start |-> 0,
     meter_stop |-> None, start_timestamp |-> start_time,
     stop_timestamp |-> None, status |-> "Active", stop_reason |-> None,
     energy_consumed |-> None]
NewSession(id, transaction_id, charge_point_id, id_tag_id, connector_id, meter_start, start_time) ==
    [id |-> id, transaction_id |-> transaction_id,
     charge_point_id |-> charge_point_id, id_tag_id |-> id_tag_id,
     connector_id |-> connector_id, meter_start |-> meter_start,
     meter_stop |-> None, start_timestamp |-> start_time,
     stop_timestamp |-> None, status |-> "Active", stop_reason |-> None,
     energy_consumed |-> None]

\* select(Session).where(Session.transaction_id == transaction_id)
\*   .scalar_one_or_none(): the row's id, or 0 when there is none.
SessionByTxIdOrLast(table, transaction_id) ==
    IF \E i \in DOMAIN table : table[i].transaction_id = transaction_id
    THEN CHOOSE i \in DOMAIN table : table[i].transaction_id = transaction_id
    ELSE Len(table)
SessionByTxId(table, transaction_id) ==
    IF \E i \in DOMAIN table : table[i].transaction_id = transaction_id
    THEN CHOOSE i \in DOMAIN table : table[i].transaction_id = transaction_id
    ELSE 0

\* Session.transaction_id is declared unique=True: an INSERT of a row whose
\* transaction_id is already in the table raises IntegrityError.
UniqueIndexNotEnforced(table, transaction_id) == TRUE
TransactionIdUnique(table, transaction_id) ==
    \A i \in DOMAIN table : table[i].transaction_id # transaction_id

(***************************************************************************)
(* ChargePoint._get_id_tag_info: the Authorize predicate.  dbOk = FALSE is *)
(* a storage error raised by the lookup.                                   *)
(***************************************************************************)
IdTagInfo(status, expiry) == [status |-> status, expiryDate |-> expiry]

get_id_tag_info(id_tag, dbOk) ==
    LET matching == {r \in IdTagRows : r.tag = id_tag} IN
    IF ~dbOk \/ matching = {} THEN IdTagInfo("Invalid", None)
    ELSE LET tag_record == CHOOSE r \in matching : TRUE IN
         IF /\ tag_record.expiry_date # None
            /\ Get(tag_record.expiry_date) < utc_now_naive
         THEN IdTagInfo("Expired",
                        Some(isoformat(Get(tag_record.expiry_date))))
         ELSE IdTagInfo(tag_record.status,
                        IF tag_record.expiry_date # None
                        THEN Some(isoformat(Get(tag_record.expiry_date)))
                        ELSE None)

(***************************************************************************)
(* Writing a response ends the handling of the Call.                       *)
(***************************************************************************)
Respond(c, transaction_id, id_tag_info, committed) ==
    /\ last' = [conn |-> c, call |-> handler[c], kind |-> "CallResult",
                transaction_id |-> transaction_id,
                id_tag_info |-> id_tag_info, committed |-> committed]
    /\ handler' = [handler EXCEPT ![c] = Idle]

(***************************************************************************)
(* ChargePoint.on_start_transaction                                        *)
(***************************************************************************)
\* _get_id_tag_info(id_tag); a tag that does not resolve to Accepted is
\* answered at once with transaction_id = 0.
StartTransaction_Begin(c, req, dbOk) ==
    LET id_tag_info == get_id_tag_info(req.id_tag, dbOk)
        call == [Idle EXCEPT !.action = "StartTransaction",
                             !.connector_id = req.connector_id,
                             !.id_tag = req.id_tag,
                             !.meter = req.meter_start,
                             !.timestamp = req.timestamp,
                             !.resolved = id_tag_info.status]
    IN
    /\ conn[c].pc = "running"
    /\ handler[c].pc = "idle"
    /\ calls < MaxCalls
    /\ calls' = calls + 1
    /\ IF id_tag_info.status = "Accepted"
       THEN /\ handler' = [handler EXCEPT ![c] = [call EXCEPT !.pc = "start_generate"]]
            /\ UNCHANGED last
       ELSE last' = [conn |-> c, call |-> call, kind |-> "CallResult",
                     transaction_id |-> 0, id_tag_info |-> Some(id_tag_info),
                     committed |-> FALSE]
            /\ UNCHANGED handler
    /\ UNCHANGED << sessions, meter_values, issued, connVars, csVars, msgVars, logVars >>

\* A check that finds every id taken.
EveryIdTaken(table, transaction_id) == TRUE

\* _generate_transaction_id: existing = result.scalar_one_or_none()
existing(table, transaction_id) == SessionByTxId(table, transaction_id) # 0

\* select(IdTag), then _generate_transaction_id: draw ids until one is found
\* that no Session row has at the time of the check (while every id is
\* taken the loop goes on).  The id_tags table is never written, so the tag
\* that _get_id_tag_info resolved is found again.
StartTransaction_Generate(c, transaction_id) ==
    /\ handler[c].pc = "start_generate"
    /\ \E r \in IdTagRows : r.tag = handler[c].id_tag
    /\ ~existing(sessions, transaction_id)
    /\ handler' = [handler EXCEPT ![c].pc = "start_commit",
                                  ![c].transaction_id = transaction_id]
    /\ UNCHANGED << sessions, meter_values, last, issued, calls, connVars, csVars, msgVars, logVars >>

\* One turn of the loop of _generate_transaction_id that draws an id some
\* Session has: the loop goes round, and nothing but the local variable of
\* the draw has changed.
StartTransaction_Collide(c, transaction_id) ==
    /\ handler[c].pc = "start_generate"
    /\ \E r \in IdTagRows : r.tag = handler[c].id_tag
    /\ existing(sessions, transaction_id)
    /\ UNCHANGED vars

\* A storage error raised by one of these selects: the except branch
\* answers Invalid, transaction_id is still 0.
StartTransaction_SelectFails(c) ==
    /\ handler[c].pc = "start_generate"
    /\ Respond(c, 0, Some(IdTagInfo("Invalid", None)), FALSE)
    /\ UNCHANGED << sessions, meter_values, issued, calls, connVars, csVars, msgVars, logVars >>

\* session.add(new_session); await session.commit().  When the commit
\* raises, the except branch rolls back and sets id_tag_info to Invalid;
\* transaction_id keeps the generated value.
StartTransaction_Commit(c, dbOk) ==
    LET h == handler[c]
        tag_record == CHOOSE r \in IdTagRows : r.tag = h.id_tag
        new_session ==
            NewSession(Len(sessions) + 1, h.transaction_id, ConnCp[c],
                       tag_record.id, h.connector_id, h.meter,
                       parse_ocpp_timestamp(h.timestamp))
    IN
    /\ h.pc = "start_commit"
    /\ IF dbOk /\ TransactionIdUnique(sessions, h.transaction_id)
       THEN /\ sessions' = Append(sessions, new_session)
            /\ issued' = issued \cup
                   {[transaction_id |-> h.transaction_id, conn |-> c,
                     connector_id |-> h.connector_id, meter_start |-> h.meter,
                     session_id |-> Len(sessions) + 1]}
            /\ Respond(c, h.transaction_id, Some(IdTagInfo("Accepted",
                   (get_id_tag_info(h.id_tag, TRUE)).expiryDate)), TRUE)
       ELSE /\ Respond(c, h.transaction_id, Some(IdTagInfo("Invalid", None)), FALSE)
            /\ UNCHANGED << sessions, issued >>
    /\ UNCHANGED << meter_values, calls, connVars, csVars, msgVars, logVars >>

(***************************************************************************)
(* ChargePoint.on_stop_transaction                                         *)
(***************************************************************************)
\* float(value): None stands for the ValueError / TypeError of a value that
\* is not a number.
float(value) ==
    CASE value = "16000" -> Some(16000)
      [] value = "2500" -> Some(2500)
      [] OTHER -> None

\* One MeterValue row per sampledValue whose value is numeric.
RECURSIVE SampledValueRows(_, _, _, _)
SampledValueRows(sampled_values, session_id, meter_timestamp, default_context) ==
    IF sampled_values = << >> THEN << >>
    ELSE LET sampled_val == Head(sampled_values)
             rest == SampledValueRows(Tail(sampled_values), session_id,
                                      meter_timestamp, default_context)
         IN IF float(sampled_val.value) = None THEN rest
            ELSE << [session_id |-> session_id,
                     timestamp |-> meter_timestamp,
                     value |-> Get(float(sampled_val.value)),
                     context |-> IF sampled_val.context = None
                                 THEN default_context
                                 ELSE Get(sampled_val.context)] >> \o rest

RECURSIVE MeterValueRows(_, _, _)
MeterValueRows(meter_value, session_id, default_context) ==
    IF meter_value = << >> THEN << >>
    ELSE SampledValueRows(Head(meter_value).sampledValue, session_id,
                          parse_ocpp_timestamp(Head(meter_value).timestamp),
                          default_context)
         \o MeterValueRows(Tail(meter_value), session_id, default_context)

\* meter_values.session_id is declared Mapped[int]: the column is NOT NULL,
\* and a commit that inserts a row without a session raises.
NotNull(rows) == \A i \in DOMAIN rows : rows[i].session_id # None

\* energy_wh = meter_stop - meter_start; energy_consumed = energy_wh / 1000.0,
\* kept as the fraction num / den.
EnergyNoSubtraction(meter_stop, meter_start) == [num |-> meter_stop, den |-> WhPerKWh]
EnergyConsumed(meter_stop, meter_start) ==
    [num |-> meter_stop - meter_start, den |-> WhPerKWh]

\* kwargs.get("reason", "Local")
ReasonAsSent(reason) == reason
ReasonOrLocal(reason) == IF reason = NoReason THEN "Local" ELSE reason

\* A stop that opens again a Session that was Completed.
ReopenedSession(session_record, meter_stop, stop_time, reason) ==
    [session_record EXCEPT
        !.meter_stop = Some(meter_stop),
        !.stop_timestamp = Some(stop_time),
        !.status = IF @ = "Completed" THEN "Active" ELSE "Completed",
        !.stop_reason = Some(reason),
        !.energy_consumed = Some(EnergyConsumed(meter_stop, session_record.meter_start))]

\* The assignments on_stop_transaction makes to the row it found.
\* (meter_start is a NOT NULL column, so energy_consumed is always set.)
StoppedSession(session_record, meter_stop, stop_time, reason) ==
    [session_record EXCEPT
        !.meter_stop = Some(meter_stop),
        !.stop_timestamp = Some(stop_time),
        !.status = "Completed",
        !.stop_reason = Some(reason),
        !.energy_consumed = Some(EnergyConsumed(meter_stop, session_record.meter_start))]

\* select(Session).where(transaction_id == ...): the row is looked up by
\* transaction_id alone.  A storage error raised by the select is answered
\* with the empty response.
StopTransaction_Load(c, transaction_id, req, dbOk) ==
    LET call == [Idle EXCEPT !.action = "StopTransaction",
                             !.transaction_id = transaction_id,
                             !.timestamp = req.timestamp,
                             !.meter = req.meter_stop,
                             !.reason = req.reason,
                             !.id_tag = req.id_tag,
                             !.transaction_data = req.transaction_data,
                             !.found = SessionByTxId(sessions, transaction_id)]
    IN
    /\ conn[c].pc = "running"
    /\ handler[c].pc = "idle"
    /\ calls < MaxCalls
    /\ calls' = calls + 1
    /\ IF dbOk
       THEN /\ handler' = [handler EXCEPT ![c] = [call EXCEPT !.pc = "stop_commit"]]
            /\ UNCHANGED last
       ELSE /\ last' = [conn |-> c, call |-> [call EXCEPT !.found = 0],
                        kind |-> "CallResult", transaction_id |-> 0,
                        id_tag_info |-> None, committed |-> FALSE]
            /\ UNCHANGED handler
    /\ UNCHANGED << sessions, meter_values, issued, connVars, csVars, msgVars, logVars >>

\* The transactionData rows are added, the idTag (when present) is resolved,
\* and the commit writes the row found and the new MeterValue rows; when the
\* commit raises, everything is rolled back and the response is sent anyway.
StopTransaction_Commit(c, dbOk, tagOk) ==
    LET h == handler[c]
        id_tag_info ==
            IF h.id_tag # NoTag THEN Some(get_id_tag_info(h.id_tag, tagOk))
            ELSE None
        rows == MeterValueRows(h.transaction_data,
                               IF h.found # 0 THEN Some(h.found) ELSE None,
                               "Transaction.End")
        ok == dbOk /\ NotNull(rows)
    IN
    /\ h.pc = "stop_commit"
    /\ h.id_tag = NoTag => tagOk
    /\ IF ok
       THEN /\ sessions' =
                  IF h.found # 0
                  THEN [sessions EXCEPT ![h.found] =
                           StoppedSession(@, h.meter,
                                          parse_ocpp_timestamp(h.timestamp),
                                          ReasonOrLocal(h.reason))]
                  ELSE sessions
            /\ meter_values' = meter_values \o rows
       ELSE UNCHANGED << sessions, meter_values >>
    /\ Respond(c, 0, id_tag_info, ok)
    /\ UNCHANGED << issued, calls, connVars, csVars, msgVars, logVars >>

(***************************************************************************)
(* The connection registry (app/connection_manager.py).  Each function     *)
(* first updates the dictionary, synchronously, and then awaits the store. *)
(***************************************************************************)
\* ChargePointModel(id=..., is_online=True, last_seen=utc_now_naive(),
\*                  status="Available", vendor="Mock", model="TestCP")
NewChargePointRow ==
    [is_online |-> TRUE, last_seen |-> Some(utc_now_naive),
     status |-> "Available", vendor |-> Some("Mock"), model |-> Some("TestCP"),
     boot_status |-> Some("Accepted")]

\* _connected_charge_points[charge_point_id] = charge_point_instance
register_dict(reg, charge_point_id, c) ==
    [reg EXCEPT ![charge_point_id] = Some(c)]

\* The store part of register_charge_point: get or create the row.
register_db(table, charge_point_id) ==
    IF table[charge_point_id] # None
    THEN [table EXCEPT ![charge_point_id] =
             Some([Get(@) EXCEPT !.is_online = TRUE,
                                 !.last_seen = Some(utc_now_naive),
                                 !.status = "Available"])]
    ELSE [table EXCEPT ![charge_point_id] = Some(NewChargePointRow)]

\* if charge_point_id in _connected_charge_points: del ...
\* The entry is removed whichever session it refers to.
unregister_dict(reg, charge_point_id, c) ==
    [reg EXCEPT ![charge_point_id] = None]

\* The store part of unregister_charge_point.
unregister_db(table, charge_point_id) ==
    IF table[charge_point_id] # None
    THEN [table EXCEPT ![charge_point_id] =
             Some([Get(@) EXCEPT !.is_online = FALSE,
                                 !.last_seen = Some(utc_now_naive)])]
    ELSE table

(***************************************************************************)
(* on_connect (app/main_with_cli.py).  conn[c].pc is the position of       *)
(* connection c; conn[c].db_error records that a store operation of its    *)
(* register or unregister raised (it is logged and swallowed).             *)
(***************************************************************************)
NewConn == [pc |-> "new", db_error |-> FALSE]
RunningConn == [pc |-> "running", db_error |-> FALSE]

\* "ocpp1.6" in requested_protocols: the session is created and
\* register_charge_point puts it into the dictionary.
Accept(c) ==
    /\ conn[c].pc = "new"
    /\ registry' = register_dict(registry, ConnCp[c], c)
    /\ accepted' = Append(accepted, c)
    /\ conn' = [conn EXCEPT ![c].pc = "register_db"]
    /\ UNCHANGED << charge_points, txVars, csVars, msgVars, logVars >>

\* register_charge_point's store transaction; then cp.start() runs.
Register_Db(c, dbOk) ==
    /\ conn[c].pc = "register_db"
    /\ charge_points' =
          IF dbOk THEN register_db(charge_points, ConnCp[c]) ELSE charge_points
    /\ conn' = [conn EXCEPT ![c].pc = "running",
                            ![c].db_error = @ \/ ~dbOk]
    /\ UNCHANGED << registry, accepted, txVars, csVars, msgVars, logVars >>

\* The read loop ends (the socket closed): cp.start() raises, the except
\* branch awaits websocket.close(1011), the finalizer is entered.
SocketCloses(c) ==
    /\ conn[c].pc = "running"
    /\ handler[c].pc = "idle"
    /\ conn' = [conn EXCEPT ![c].pc = "finalizer"]
    /\ UNCHANGED << charge_points, registry, accepted, txVars, csVars, msgVars, logVars >>

\* finally: unregister_charge_point removes the dictionary entry
Unregister(c) ==
    /\ conn[c].pc = "finalizer"
    /\ registry' = unregister_dict(registry, ConnCp[c], c)
    /\ conn' = [conn EXCEPT ![c].pc = "unregister_db"]
    /\ UNCHANGED << charge_points, accepted, txVars, csVars, msgVars, logVars >>

\* ... and then marks the row offline.
Unregister_Db(c, dbOk) ==
    /\ conn[c].pc = "unregister_db"
    /\ charge_points' =
          IF dbOk THEN unregister_db(charge_points, ConnCp[c]) ELSE charge_points
    /\ conn' = [conn EXCEPT ![c].pc = "closed",
                            ![c].db_error = @ \/ ~dbOk]
    /\ UNCHANGED << registry, accepted, txVars, csVars, msgVars, logVars >>

InitConn ==
    /\ sessions = << >>
    /\ meter_values = << >>
    /\ charge_points = [cp \in ChargePointIds |-> None]
    /\ registry = [cp \in ChargePointIds |-> None]
    /\ conn = [c \in Conns |-> NewConn]
    /\ accepted = << >>
    /\ handler = [c \in Conns |-> Idle]
    /\ last = NoResponse
    /\ issued = {}
    /\ calls = 0
    /\ op = NoCommand
    /\ result = NoResult
    /\ outbox = NoCall
    /\ cmds = 0
    /\ InitLayer

NextConn ==
    \E c \in Conns :
        \/ Accept(c)
        \/ \E dbOk \in BOOLEAN : Register_Db(c, dbOk)
        \/ SocketCloses(c)
        \/ Unregister(c)
        \/ \E dbOk \in BOOLEAN : Unregister_Db(c, dbOk)

SpecConn == InitConn /\ [][NextConn]_vars

(***************************************************************************)
(* The transaction handlers on two live connections: the state after c1    *)
(* (CP001) and c2 (CP002) have connected and registered.                   *)
(***************************************************************************)
InitTx ==
    /\ sessions = << >>
    /\ meter_values = << >>
    /\ charge_points = [cp \in ChargePointIds |-> Some(NewChargePointRow)]
    /\ registry = [cp \in ChargePointIds |->
                      Some(CHOOSE c \in TxConns : ConnCp[c] = cp)]
    /\ conn = [c \in Conns |-> IF c \in TxConns THEN RunningConn ELSE NewConn]
    /\ accepted = << "c1", "c2" >>
    /\ handler = [c \in Conns |-> Idle]
    /\ last = NoResponse
    /\ issued = {}
    /\ calls = 0
    /\ op = NoCommand
    /\ result = NoResult
    /\ outbox = NoCall
    /\ cmds = 0
    /\ InitLayer

NextTx ==
    \E c \in TxConns :
        \/ \E req \in StartTransactionPayloads, dbOk \in BOOLEAN :
              StartTransaction_Begin(c, req, dbOk)
        \/ \E transaction_id \in TxIdDraws :
              StartTransaction_Generate(c, transaction_id)
        \/ StartTransaction_SelectFails(c)
        \/ \E dbOk \in BOOLEAN : StartTransaction_Commit(c, dbOk)
        \/ \E transaction_id \in TxIdDraws, req \in StopTransactionPayloads,
              dbOk \in BOOLEAN :
              StopTransaction_Load(c, transaction_id, req, dbOk)
        \/ \E dbOk \in BOOLEAN, tagOk \in BOOLEAN :
              StopTransaction_Commit(c, dbOk, tagOk)

SpecTx == InitTx /\ [][NextTx]_vars

(***************************************************************************)
(* StartTransaction with the turns of the allocation loop that collide,    *)
(* under fairness.  random.randint draws every id of the range with the    *)
(* same probability at every turn, so a loop that could draw a free id at  *)
(* every turn does draw one; and the event loop resumes a handler whose    *)
(* await has completed.                                                    *)
(***************************************************************************)
NextAlloc ==
    \E c \in TxConns :
        \/ \E req \in StartTransactionPayloads, dbOk \in BOOLEAN :
              StartTransaction_Begin(c, req, dbOk)
        \/ \E transaction_id \in TxIdDraws :
              StartTransaction_Generate(c, transaction_id)
        \/ \E transaction_id \in TxIdDraws :
              StartTransaction_Collide(c, transaction_id)
        \/ StartTransaction_SelectFails(c)
        \/ \E dbOk \in BOOLEAN : StartTransaction_Commit(c, dbOk)

FairAlloc ==
    \A c \in TxConns :
        /\ WF_vars(\E transaction_id \in TxIdDraws :
                      StartTransaction_Generate(c, transaction_id))
        /\ WF_vars(\E dbOk \in BOOLEAN : StartTransaction_Commit(c, dbOk))

SpecAlloc == InitTx /\ [][NextAlloc]_vars /\ FairAlloc

(***************************************************************************)
(* ChargePoint.on_authorize: one lookup of the tag, answered at once.      *)
(* In an Authorize response `committed` tells that the lookup did not      *)
(* raise.                                                                  *)
(***************************************************************************)
AuthorizeTags == {r.tag : r \in IdTagRows} \cup {"UNKNOWN"}

Authorize(c, id_tag, dbOk) ==
    LET id_tag_info == get_id_tag_info(id_tag, dbOk)
        call == [Idle EXCEPT !.action = "Authorize", !.id_tag = id_tag,
                             !.resolved = id_tag_info.status]
    IN
    /\ conn[c].pc = "running"
    /\ handler[c].pc = "idle"
    /\ calls < MaxCalls
    /\ calls' = calls + 1
    /\ last' = [conn |-> c, call |-> call, kind |-> "CallResult",
                transaction_id |-> 0, id_tag_info |-> Some(id_tag_info),
                committed |-> dbOk]
    /\ UNCHANGED << sessions, meter_values, handler, issued, connVars, csVars, msgVars, logVars >>

\* Authorize Calls on the two live connections, until their sockets close.
NextAuth ==
    \E c \in TxConns :
        \/ \E id_tag \in AuthorizeTags, dbOk \in BOOLEAN :
              Authorize(c, id_tag, dbOk)
        \/ SocketCloses(c)
        \/ Unregister(c)
        \/ \E dbOk \in BOOLEAN : Unregister_Db(c, dbOk)

SpecAuth == InitTx /\ [][NextAuth]_vars

(***************************************************************************)
(* CentralSystem (app/central_system.py): the operator commands.  A        *)
(* command is a coroutine; op.pc is its position, and each action below    *)
(* runs it from one await to the next.                                     *)
(***************************************************************************)
\* Operator commands issued in one behaviour of SpecCs.
MaxCmds == 2

\* The connection whose lifecycle runs in SpecCs (charge point CP001);
\* CP002 never connects there.
CsConns == {"c1"}

\* The charge_points table when the server starts: empty, or with the row
\* CP001 left when it disconnected from an earlier run of the server, after
\* a StatusNotification had set its status to Faulted.
CsChargePoints ==
    { [cp \in ChargePointIds |-> None],
      [cp \in ChargePointIds |->
          IF cp = "CP001"
          THEN Some([NewChargePointRow EXCEPT !.is_online = FALSE,
                                              !.status = "Faulted"])
          ELSE None] }

\* The sessions table in SpecCs: transaction MinTxId is Active on CP001,
\* transaction MinTxId + 1 was stopped; no row has MaxTxId.
CsSessions ==
    << NewSession(1, MinTxId, "CP001", 1, 1, 1000, 10),
       StoppedSession(NewSession(2, MinTxId + 1, "CP001", 1, 2, 2000, 10),
                      16000, 11, "Local") >>
CsTransactionIds == {MinTxId, MinTxId + 1, MaxTxId}

\* (connector_id, availability_type) of change_availability
ChangeAvailabilityArgs ==
    { [connector_id |-> 0, availability_type |-> "Operative"],
      [connector_id |-> 1, availability_type |-> "Inoperative"],
      [connector_id |-> 2, availability_type |-> "Operative"],
      [connector_id |-> -1, availability_type |-> "Inoperative"],
      [connector_id |-> 1, availability_type |-> "Unavailable"],
      [connector_id |-> 2, availability_type |-> "Unavailable"] }

\* What comes back for a Call: a CallResult with a status, a CallError, or
\* nothing within the timeout.  call() returns None for a CallError, and
\* response.status then raises; a timeout raises in call().
Replies(statuses) ==
    {[kind |-> "CallResult", status |-> s] : s \in statuses}
        \cup {[kind |-> "CallError", status |-> ""],
              [kind |-> "Timeout", status |-> ""]}
RemoteStartStopStatuses == {"Accepted", "Rejected"}
AvailabilityStatuses == {"Accepted", "Rejected", "Scheduled"}

\* get_connected_charge_point(charge_point_id)
get_connected_charge_point(reg, charge_point_id) == reg[charge_point_id]

\* session.get(ChargePointModel, charge_point_id), as the command sees it
RowSeen(table, charge_point_id, dbOk) ==
    IF ~dbOk THEN "error"
    ELSE IF table[charge_point_id] = None THEN "absent"
    ELSE IF Get(table[charge_point_id]).is_online THEN "online"
    ELSE "offline"

\* The socket of connection c is open from the handshake until the read
\* loop ends.
SocketOpen(c) == conn[c].pc \in {"register_db", "running"}

\* CentralSystem.validate_id_tag.  The dictionary returned from the except
\* branch has no "reason" key.
validate_id_tag(id_tag, dbOk) ==
    LET matching == {r \in IdTagRows : r.tag = id_tag} IN
    IF ~dbOk
    THEN [valid |-> FALSE, status |-> "Invalid", reason |-> None]
    ELSE IF matching = {}
    THEN [valid |-> FALSE, status |-> "Invalid",
          reason |-> Some("ID tag not found")]
    ELSE LET tag_record == CHOOSE r \in matching : TRUE IN
         IF tag_record.status = "Blocked"
         THEN [valid |-> FALSE, status |-> "Blocked",
               reason |-> Some("ID tag is blocked")]
         ELSE IF /\ tag_record.expiry_date # None
                 /\ Get(tag_record.expiry_date) < utc_now_naive
         THEN [valid |-> FALSE, status |-> "Expired",
               reason |-> Some("ID tag has expired")]
         ELSE [valid |-> TRUE, status |-> "Accepted", reason |-> None]

(***************************************************************************)
(* The dictionaries the commands return.  change_availability's have no    *)
(* "success" key.                                                          *)
(***************************************************************************)
\* {"success": False, "error": ..., "status": "Rejected"}
CommandRejected(o, error) ==
    [op |-> o, raised |-> FALSE,
     success |-> IF o.command = "change_availability" THEN None
                 ELSE Some(FALSE),
     status |-> "Rejected", error |-> Some(error), id_tag_status |-> None]

\* An exception that leaves the command.
Propagate(o, error) ==
    [op |-> o, raised |-> TRUE, success |-> None, status |-> "",
     error |-> Some(error), id_tag_status |-> None]
\* except Exception as e: return {...}
OnException(o, error) == CommandRejected(o, error)

\* A completed command whose answer is a rejection of every status but
\* Accepted.
CompletedOnlyIfAccepted(o, status) ==
    IF status = "Accepted"
    THEN [op |-> o, raised |-> FALSE, success |-> Some(TRUE),
          status |-> status, error |-> None, id_tag_status |-> None]
    ELSE CommandRejected(o, "Not accepted")
\* {"success": True, "status": response.status, ...}
CommandCompleted(o, status) ==
    [op |-> o, raised |-> FALSE,
     success |-> IF o.command = "change_availability" THEN None
                 ELSE Some(TRUE),
     status |-> status, error |-> None, id_tag_status |-> None]

\* return: the command ends.
Return(res) ==
    /\ result' = res
    /\ op' = NoCommand

\* await charge_point.call(request): the request is written to the socket
\* the command holds; a closed socket or a network error raises.
Send(o, action, payload, sendOk, await_pc, error) ==
    LET c == Get(o.charge_point) IN
    IF sendOk /\ SocketOpen(c)
    THEN /\ outbox' = [conn |-> c, action |-> action, payload |-> payload]
         /\ op' = [o EXCEPT !.sent = TRUE, !.pc = await_pc]
         /\ UNCHANGED result
    ELSE /\ Return(OnException(o, error))
         /\ UNCHANGED outbox

\* The operator issues a command: one at a time, as from the command line.
Begin ==
    /\ op.pc = "idle"
    /\ cmds < MaxCmds
    /\ cmds' = cmds + 1

(***************************************************************************)
(* CentralSystem.remote_start_transaction                                  *)
(***************************************************************************)
\* One error for every charge point that is not in the registry.
RowErrorNotConnected(seen) == "Charge point not connected"
\* The error returned for a charge point that is not in the registry.
remote_start_row_error(seen) ==
    CASE seen = "error" -> "Failed to check charge point status"
      [] seen = "online" ->
            "Charge point is online but not connected to this Central System process"
      [] OTHER -> "Charge point not connected"

\* get_connected_charge_point comes first.
RemoteStart_Begin(charge_point_id, id_tag) ==
    LET charge_point == get_connected_charge_point(registry, charge_point_id)
        o == [NoCommand EXCEPT !.command = "remote_start_transaction",
                               !.charge_point_id = charge_point_id,
                               !.id_tag = id_tag,
                               !.connector_id = 1,
                               !.charge_point = charge_point]
    IN
    /\ Begin
    /\ op' = [o EXCEPT !.pc = IF charge_point = None THEN "start_row"
                               ELSE "start_validate"]
    /\ UNCHANGED << result, outbox, connVars, txVars, msgVars, logVars >>

\* if not charge_point: session.get(ChargePointModel, charge_point_id) and
\* one of three errors.
RemoteStart_CheckRow(dbOk) ==
    LET seen == RowSeen(charge_points, op.charge_point_id, dbOk)
        o == [op EXCEPT !.reads = @ + 1, !.row = seen]
    IN
    /\ op.pc = "start_row"
    /\ Return(CommandRejected(o, remote_start_row_error(seen)))
    /\ UNCHANGED << outbox, cmds, connVars, txVars, msgVars, logVars >>

\* validate_id_tag, then the Call.  id_tag_validation['reason'] raises
\* KeyError when the validation itself met a storage error.
RemoteStart_Validate(dbOk, sendOk) ==
    LET v == validate_id_tag(op.id_tag, dbOk)
        o == [op EXCEPT !.reads = @ + 1, !.validation = Some(v)]
    IN
    /\ op.pc = "start_validate"
    /\ IF ~v.valid
       THEN /\ IF v.reason = None
               THEN Return(OnException(o, "'reason'"))
               ELSE Return([CommandRejected(o, "ID tag validation failed")
                               EXCEPT !.id_tag_status = Some(v.status)])
            /\ UNCHANGED outbox
       ELSE Send(o, "RemoteStartTransaction",
                 << o.id_tag, o.connector_id >>, sendOk, "start_await",
                 "send failed")
    /\ UNCHANGED << cmds, connVars, txVars, msgVars, logVars >>

\* The await of charge_point.call ends.
RemoteStart_Reply(reply) ==
    LET o == [op EXCEPT !.response = Some(reply)] IN
    /\ op.pc = "start_await"
    /\ IF reply.kind = "CallResult"
       THEN Return(CommandCompleted(o, reply.status))
       ELSE Return(OnException(o, reply.kind))
    /\ UNCHANGED << outbox, cmds, connVars, txVars, msgVars, logVars >>

(***************************************************************************)
(* CentralSystem.remote_stop_transaction                                   *)
(***************************************************************************)
\* A lookup by transaction_id alone.
FindIgnoringChargePoint(table, charge_point_id, transaction_id) ==
    LET found == {i \in DOMAIN table :
                     table[i].transaction_id = transaction_id} IN
    IF found = {} THEN "absent"
    ELSE IF table[CHOOSE i \in found : TRUE].status # "Active" THEN "inactive"
    ELSE "active"
\* select(Session).where(transaction_id == ...).where(charge_point_id == ...)
remote_stop_find(table, charge_point_id, transaction_id) ==
    LET found == {i \in DOMAIN table :
                     /\ table[i].transaction_id = transaction_id
                     /\ table[i].charge_point_id = charge_point_id} IN
    IF found = {} THEN "absent"
    ELSE IF table[CHOOSE i \in found : TRUE].status # "Active" THEN "inactive"
    ELSE "active"

\* The transaction is validated first.
RemoteStop_Begin(charge_point_id, transaction_id, dbOk) ==
    LET seen == IF dbOk
                THEN remote_stop_find(sessions, charge_point_id, transaction_id)
                ELSE "error"
        o == [NoCommand EXCEPT !.command = "remote_stop_transaction",
                               !.charge_point_id = charge_point_id,
                               !.transaction_id = transaction_id,
                               !.reads = 1,
                               !.session = seen]
    IN
    /\ Begin
    /\ IF seen = "active"
       THEN /\ op' = [o EXCEPT !.pc = "stop_lookup"]
            /\ UNCHANGED result
       ELSE Return(CommandRejected(o,
                CASE seen = "absent" -> "Transaction not found for charge point"
                  [] seen = "inactive" -> "Transaction is not active"
                  [] OTHER -> "Failed to validate transaction"))
    /\ UNCHANGED << outbox, connVars, txVars, msgVars, logVars >>

\* get_connected_charge_point, then the Call; the ChargePoint row is not
\* read.
RemoteStop_Send(sendOk) ==
    LET charge_point == get_connected_charge_point(registry, op.charge_point_id)
        o == [op EXCEPT !.charge_point = charge_point]
    IN
    /\ op.pc = "stop_lookup"
    /\ IF charge_point = None
       THEN /\ Return(CommandRejected(o, "Charge point not connected"))
            /\ UNCHANGED outbox
       ELSE Send(o, "RemoteStopTransaction", << o.transaction_id >>, sendOk,
                 "stop_await", "send failed")
    /\ UNCHANGED << cmds, connVars, txVars, msgVars, logVars >>

RemoteStop_Reply(reply) ==
    LET o == [op EXCEPT !.response = Some(reply)] IN
    /\ op.pc = "stop_await"
    /\ IF reply.kind = "CallResult"
       THEN Return(CommandCompleted(o, reply.status))
       ELSE Return(OnException(o, reply.kind))
    /\ UNCHANGED << outbox, cmds, connVars, txVars, msgVars, logVars >>

(***************************************************************************)
(* CentralSystem.change_availability                                       *)
(***************************************************************************)
\* An input check that lets every connector through.
AnyConnectorValid(connector_id, availability_type) ==
    IF availability_type \notin {"Operative", "Inoperative"}
    THEN Some("Invalid availability type")
    ELSE None
\* The input checks: None, or the error of the first check that fails.
availability_input_error(connector_id, availability_type) ==
    IF availability_type \notin {"Operative", "Inoperative"}
    THEN Some("Invalid availability type")
    ELSE IF connector_id < 0 \/ connector_id > 1
    THEN Some("Invalid connector_id")
    ELSE None

\* A resolution that does not look at is_online.
ResolveIgnoringOnline(seen, charge_point) ==
    CASE seen = "error" -> Some("Database error")
      [] seen = "absent" -> Some("Charge point not found")
      [] charge_point = None -> Some("No active connection for")
      [] OTHER -> None
\* The row must exist and be online, and the registry must have an entry:
\* None, or the error of the first that fails.
availability_resolve_error(seen, charge_point) ==
    CASE seen = "error" -> Some("Database error")
      [] seen = "absent" -> Some("Charge point not found")
      [] seen = "offline" -> Some("Charge point offline")
      [] charge_point = None -> Some("No active connection for")
      [] OTHER -> None

ChangeAvailability_Begin(charge_point_id, args) ==
    LET o == [NoCommand EXCEPT !.command = "change_availability",
                               !.charge_point_id = charge_point_id,
                               !.connector_id = args.connector_id,
                               !.availability_type = args.availability_type]
        error == availability_input_error(args.connector_id,
                                          args.availability_type)
    IN
    /\ Begin
    /\ IF error # None
       THEN Return(CommandRejected(o, Get(error)))
       ELSE /\ op' = [o EXCEPT !.pc = "avail_get"]
            /\ UNCHANGED result
    /\ UNCHANGED << outbox, connVars, txVars, msgVars, logVars >>

\* session.get(ChargePointModel, ...), get_connected_charge_point, the Call
ChangeAvailability_Resolve(dbOk, sendOk) ==
    LET seen == RowSeen(charge_points, op.charge_point_id, dbOk)
        charge_point ==
            get_connected_charge_point(registry, op.charge_point_id)
        o == [op EXCEPT !.reads = @ + 1, !.row = seen,
                        !.charge_point = charge_point]
        error == availability_resolve_error(seen, charge_point)
    IN
    /\ op.pc = "avail_get"
    /\ IF error # None
       THEN /\ Return(IF seen = "error" THEN OnException(o, Get(error))
                      ELSE CommandRejected(o, Get(error)))
            /\ UNCHANGED outbox
       ELSE Send(o, "ChangeAvailability",
                 << o.connector_id, o.availability_type >>, sendOk,
                 "avail_await", "Communication error")
    /\ UNCHANGED << cmds, connVars, txVars, msgVars, logVars >>

ChangeAvailability_Reply(reply) ==
    LET o == [op EXCEPT !.response = Some(reply)] IN
    /\ op.pc = "avail_await"
    /\ IF reply.kind = "CallResult"
       THEN Return(CommandCompleted(o, reply.status))
       ELSE Return(OnException(o, "Communication error"))
    /\ UNCHANGED << outbox, cmds, connVars, txVars, msgVars, logVars >>

(***************************************************************************)
(* The operator commands while charge point CP001 connects and             *)
(* disconnects.  The store keeps the rows of earlier connections.          *)
(***************************************************************************)
InitCs ==
    /\ sessions = CsSessions
    /\ meter_values = << >>
    /\ charge_points \in CsChargePoints
    /\ registry = [cp \in ChargePointIds |-> None]
    /\ conn = [c \in Conns |-> NewConn]
    /\ accepted = << >>
    /\ handler = [c \in Conns |-> Idle]
    /\ last = NoResponse
    /\ issued = {}
    /\ calls = 0
    /\ op = NoCommand
    /\ result = NoResult
    /\ outbox = NoCall
    /\ cmds = 0
    /\ InitLayer

NextCs ==
    \/ \E c \in CsConns :
          \/ Accept(c)
          \/ \E dbOk \in BOOLEAN : Register_Db(c, dbOk)
          \/ SocketCloses(c)
          \/ Unregister(c)
          \/ \E dbOk \in BOOLEAN : Unregister_Db(c, dbOk)
    \/ \E charge_point_id \in ChargePointIds, id_tag \in AuthorizeTags :
          RemoteStart_Begin(charge_point_id, id_tag)
    \/ \E dbOk \in BOOLEAN : RemoteStart_CheckRow(dbOk)
    \/ \E dbOk \in BOOLEAN, sendOk \in BOOLEAN :
          RemoteStart_Validate(dbOk, sendOk)
    \/ \E reply \in Replies(RemoteStartStopStatuses) : RemoteStart_Reply(reply)
    \/ \E charge_point_id \in ChargePointIds,
          transaction_id \in CsTransactionIds, dbOk \in BOOLEAN :
          RemoteStop_Begin(charge_point_id, transaction_id, dbOk)
    \/ \E sendOk \in BOOLEAN : RemoteStop_Send(sendOk)
    \/ \E reply \in Replies(RemoteStartStopStatuses) : RemoteStop_Reply(reply)
    \/ \E charge_point_id \in ChargePointIds, args \in ChangeAvailabilityArgs :
          ChangeAvailability_Begin(charge_point_id, args)
    \/ \E dbOk \in BOOLEAN, sendOk \in BOOLEAN :
          ChangeAvailability_Resolve(dbOk, sendOk)
    \/ \E reply \in Replies(AvailabilityStatuses) :
          ChangeAvailability_Reply(reply)

SpecCs == InitCs /\ [][NextCs]_vars

(***************************************************************************)
(* The handshake of on_connect (app/main_with_cli.py, app/main.py).  A     *)
(* string is a sequence of symbols: a subprotocol name or a charge point   *)
(* id is one symbol, "/", "," and " " are the others.                      *)
(***************************************************************************)
\* str.split(sep)
RECURSIVE split(_, _)
split(s, sep) ==
    LET at == {i \in 1..Len(s) : s[i] = sep} IN
    IF at = {} THEN << s >>
    ELSE LET i == CHOOSE x \in at : \A y \in at : x <= y IN
         << SubSeq(s, 1, i - 1) >> \o split(SubSeq(s, i + 1, Len(s)), sep)

\* str.strip(chars), for one character
RECURSIVE strip(_, _)
strip(s, ch) ==
    IF s # << >> /\ Head(s) = ch THEN strip(Tail(s), ch)
    ELSE IF s # << >> /\ s[Len(s)] = ch THEN strip(SubSeq(s, 1, Len(s) - 1), ch)
    ELSE s

\* The id that is left of a path: one symbol, or the empty string.
PathId(s) == IF s = << >> THEN "" ELSE s[1]

\* item in items
Contains(items, item) == \E i \in DOMAIN items : items[i] = item

\* The upgrade requests: the path and the Sec-WebSocket-Protocol header.
Upgrades == {"u1", "u2", "u3", "u4", "u5", "u6"}
UpgradeRequest ==
    [u \in Upgrades |->
        CASE u = "u1" -> [path |-> << "/", "CP001" >>, header |-> << "ocpp1.6" >>]
          [] u = "u2" -> [path |-> << "/" >>, header |-> << "ocpp1.6" >>]
          [] u = "u3" -> [path |-> << "/", "CP001" >>,
                          header |-> << "ocpp2.0.1", ",", " ", "ocpp1.6" >>]
          [] u = "u4" -> [path |-> << "/", "CP002" >>, header |-> << "ocpp2.0.1" >>]
          [] u = "u5" -> [path |-> << "/", "CP002" >>,
                          header |-> << "ocpp1.6", ",", " ", "ocpp2.0.1" >>]
          [] OTHER -> [path |-> << "/", "CP002" >>, header |-> << >>]]

\* The ids a path can give.
AcceptIds == ChargePointIds \cup {""}

\* A connection that on_connect has not begun to handle.  charge_point_id
\* is the local variable of on_connect (None until the path is read);
\* close_code is the code the server closed the socket with (0: it did not).
NewUpgrade ==
    [pc |-> "new", db_error |-> FALSE, charge_point_id |-> None,
     close_code |-> 0]

\* on_connect of app/main_with_cli.py, up to the dictionary part of
\* register_charge_point.
OnConnect(u) ==
    LET requested_protocols == split(UpgradeRequest[u].header, ",")
        charge_point_id == PathId(strip(UpgradeRequest[u].path, "/"))
    IN
    /\ conn[u].pc = "new"
    /\ IF Contains(requested_protocols, << "ocpp1.6" >>)
       THEN /\ registry' = register_dict(registry, charge_point_id, u)
            /\ accepted' = Append(accepted, u)
            /\ conn' = [conn EXCEPT ![u].pc = "register_db",
                                    ![u].charge_point_id = Some(charge_point_id)]
       ELSE /\ conn' = [conn EXCEPT ![u].pc = "closed",
                                    ![u].close_code = 1002]
            /\ UNCHANGED << registry, accepted >>
    /\ UNCHANGED << charge_points, txVars, csVars, msgVars, logVars >>

\* The store part of register_charge_point; then cp.start().
OnConnect_RegisterDb(u, dbOk) ==
    /\ conn[u].pc = "register_db"
    /\ charge_points' =
          IF dbOk THEN register_db(charge_points, Get(conn[u].charge_point_id))
          ELSE charge_points
    /\ conn' = [conn EXCEPT ![u].pc = "running", ![u].db_error = @ \/ ~dbOk]
    /\ UNCHANGED << registry, accepted, txVars, csVars, msgVars, logVars >>

\* cp.start() ends with an exception (the socket closed, a transport
\* error, an exception out of the message layer); the except branch awaits
\* websocket.close(1011), which may raise as well.
OnConnect_ReadLoopEnds(u, closeOk) ==
    /\ conn[u].pc = "running"
    /\ conn' = [conn EXCEPT ![u].pc = "finalizer",
                            ![u].close_code = IF closeOk THEN 1011 ELSE 0]
    /\ UNCHANGED << charge_points, registry, accepted, txVars, csVars, msgVars, logVars >>

\* finally: if charge_point_id: await unregister_charge_point(...)
OnConnect_Finally(u) ==
    /\ conn[u].pc = "finalizer"
    /\ IF Get(conn[u].charge_point_id) # ""
       THEN /\ registry' = unregister_dict(registry,
                                           Get(conn[u].charge_point_id), u)
            /\ conn' = [conn EXCEPT ![u].pc = "unregister_db"]
       ELSE /\ conn' = [conn EXCEPT ![u].pc = "closed"]
            /\ UNCHANGED registry
    /\ UNCHANGED << charge_points, accepted, txVars, csVars, msgVars, logVars >>

\* The store part of unregister_charge_point.
OnConnect_UnregisterDb(u, dbOk) ==
    /\ conn[u].pc = "unregister_db"
    /\ charge_points' =
          IF dbOk THEN unregister_db(charge_points, Get(conn[u].charge_point_id))
          ELSE charge_points
    /\ conn' = [conn EXCEPT ![u].pc = "closed", ![u].db_error = @ \/ ~dbOk]
    /\ UNCHANGED << registry, accepted, txVars, csVars, msgVars, logVars >>

InitAccept ==
    /\ sessions = << >>
    /\ meter_values = << >>
    /\ charge_points = [id \in AcceptIds |-> None]
    /\ registry = [id \in AcceptIds |-> None]
    /\ conn = [u \in Upgrades |-> NewUpgrade]
    /\ accepted = << >>
    /\ handler = [c \in Conns |-> Idle]
    /\ last = NoResponse
    /\ issued = {}
    /\ calls = 0
    /\ op = NoCommand
    /\ result = NoResult
    /\ outbox = NoCall
    /\ cmds = 0
    /\ InitLayer

NextAccept ==
    \E u \in Upgrades :
        \/ OnConnect(u)
        \/ \E dbOk \in BOOLEAN : OnConnect_RegisterDb(u, dbOk)
        \/ \E closeOk \in BOOLEAN : OnConnect_ReadLoopEnds(u, closeOk)
        \/ OnConnect_Finally(u)
        \/ \E dbOk \in BOOLEAN : OnConnect_UnregisterDb(u, dbOk)

SpecAccept == InitAccept /\ [][NextAccept]_vars

(***************************************************************************)
(* The entry point the API server starts (app/api_server.py imports main   *)
(* of app/main.py): its on_connect has no register and no finalizer.       *)
(***************************************************************************)
\* on_connect of app/main.py up to cp.start().
Main_OnConnect(u) ==
    LET requested_protocols == split(UpgradeRequest[u].header, ",")
        charge_point_id == PathId(strip(UpgradeRequest[u].path, "/"))
    IN
    /\ conn[u].pc = "new"
    /\ conn' = IF Contains(requested_protocols, << "ocpp1.6" >>)
               THEN [conn EXCEPT ![u].pc = "running",
                                 ![u].charge_point_id = Some(charge_point_id)]
               ELSE [conn EXCEPT ![u].pc = "closed", ![u].close_code = 1002]
    /\ UNCHANGED << charge_points, registry, accepted, txVars, csVars, msgVars, logVars >>

\* cp.start() ends with an exception; websocket.close(1011) may raise.
Main_ReadLoopEnds(u, closeOk) ==
    /\ conn[u].pc = "running"
    /\ conn' = [conn EXCEPT ![u].pc = "closed",
                            ![u].close_code = IF closeOk THEN 1011 ELSE 0]
    /\ UNCHANGED << charge_points, registry, accepted, txVars, csVars, msgVars, logVars >>

NextApi ==
    \E u \in Upgrades :
        \/ Main_OnConnect(u)
        \/ \E closeOk \in BOOLEAN : Main_ReadLoopEnds(u, closeOk)

SpecApi == InitAccept /\ [][NextApi]_vars

(***************************************************************************)
(* The outbound Call path of one connection: what stands behind            *)
(* `await charge_point.call(request)`.  The commands are taken at their    *)
(* call sites, on connection c1 of CP001.                                  *)
(***************************************************************************)
MaxUniqueIds == 2

\* The command each task runs, at its call site.
TaskCommand(t) ==
    IF t = "t1"
    THEN [NoCommand EXCEPT !.pc = "start_await",
                           !.command = "remote_start_transaction",
                           !.charge_point_id = "CP001",
                           !.id_tag = "VALID001", !.connector_id = 1,
                           !.charge_point = Some("c1"), !.sent = TRUE]
    ELSE [NoCommand EXCEPT !.pc = "avail_await",
                           !.command = "change_availability",
                           !.charge_point_id = "CP001", !.connector_id = 1,
                           !.availability_type = "Inoperative",
                           !.charge_point = Some("c1"), !.sent = TRUE]

\* The Action of the Call the command sends.
TaskAction(t) ==
    IF t = "t1" THEN "RemoteStartTransaction" ELSE "ChangeAvailability"

\* The statuses the charge point may answer a Call of this Action with.
ActionStatuses(action) ==
    IF action = "RemoteStartTransaction" THEN RemoteStartStopStatuses
    ELSE AvailabilityStatuses

\* Register the awaiter of a Call.
register_awaiter(tbl, unique_id, t) ==
    [i \in DOMAIN tbl \cup {unique_id} |->
        IF i = unique_id THEN t ELSE tbl[i]]

\* Remove the entry of a Call.
remove_awaiter(tbl, unique_id) ==
    [i \in DOMAIN tbl \ {unique_id} |-> tbl[i]]

\* A timeout that leaves the awaiter in the table.
ExpireKeepsAwaiter(tbl, unique_id) == tbl
\* The per-Call timeout elapses: the entry is removed.
expire(tbl, unique_id) == remove_awaiter(tbl, unique_id)

\* A lookup that takes any awaiter there is.
AnyAwaiter(tbl, unique_id) ==
    IF DOMAIN tbl = {} THEN None
    ELSE Some(tbl[CHOOSE i \in DOMAIN tbl : \A j \in DOMAIN tbl : i <= j])
\* Receive: look up the awaiter of a response by its UniqueId.
awaiter(tbl, unique_id) ==
    IF unique_id \in DOMAIN tbl THEN Some(tbl[unique_id]) ELSE None

\* What the command returns for the answer to its Call.
CallOutcome(t, kind, status) ==
    LET o == [TaskCommand(t) EXCEPT
                 !.response = Some([kind |-> kind, status |-> status])] IN
    IF kind = "CallResult" THEN CommandCompleted(o, status)
    ELSE OnException(o, kind)

\* Send-Call: a fresh UniqueId, the awaiter registered.
Call_Register(t) ==
    /\ tasks[t].pc = "idle"
    /\ next_unique_id <= MaxUniqueIds
    /\ tasks' = [tasks EXCEPT ![t] = [pc |-> "registered",
                                      unique_id |-> next_unique_id,
                                      result |-> NoResult]]
    /\ call_table' = register_awaiter(call_table, next_unique_id, t)
    /\ next_unique_id' = next_unique_id + 1
    /\ UNCHANGED << write_lock, frames_out, frames_in, history, inVars,
                    connVars, txVars, csVars, logVars >>

\* Send-Call: writes are exclusive.
Call_Acquire(t) ==
    /\ tasks[t].pc = "registered"
    /\ write_lock = None
    /\ write_lock' = Some(t)
    /\ tasks' = [tasks EXCEPT ![t].pc = "writing"]
    /\ UNCHANGED << call_table, next_unique_id, frames_out, frames_in,
                    history, inVars, connVars, txVars, csVars, logVars >>

\* Send-Call: the frame is written, the write path released.
Call_Write(t) ==
    /\ tasks[t].pc = "writing"
    /\ frames_out' = Append(frames_out, [unique_id |-> tasks[t].unique_id,
                                         action |-> TaskAction(t)])
    /\ write_lock' = None
    /\ tasks' = [tasks EXCEPT ![t].pc = "waiting"]
    /\ UNCHANGED << call_table, next_unique_id, frames_in, history, inVars,
                    connVars, txVars, csVars, logVars >>

\* The charge point answers a Call it has received, at any later time.
ChargePoint_Responds(i, kind, status) ==
    LET unique_id == frames_out[i].unique_id IN
    /\ unique_id \notin history.answered
    /\ frames_in' = frames_in \cup {[unique_id |-> unique_id, kind |-> kind,
                                     status |-> status]}
    /\ history' = [history EXCEPT !.answered = @ \cup {unique_id}]
    /\ UNCHANGED << tasks, call_table, next_unique_id, write_lock, frames_out,
                    inVars, connVars, txVars, csVars, logVars >>

\* Receive: a CallResult or CallError is delivered to its awaiter, or
\* dropped when its UniqueId is unknown.
Receive(f) ==
    LET a == awaiter(call_table, f.unique_id) IN
    /\ f \in frames_in
    /\ frames_in' = frames_in \ {f}
    /\ IF a # None
       THEN /\ tasks' = [tasks EXCEPT
                   ![Get(a)].pc = "idle",
                   ![Get(a)].result = CallOutcome(Get(a), f.kind, f.status)]
            /\ call_table' = remove_awaiter(call_table, f.unique_id)
            /\ history' = [history EXCEPT !.delivered = @ \cup
                   {[awaiter |-> Get(a), call |-> tasks[Get(a)].unique_id,
                     frame |-> f,
                     others |-> {u \in Tasks \ {Get(a)} :
                                    tasks[u].pc = "waiting"}]}]
       ELSE /\ history' = [history EXCEPT !.dropped = @ \cup {f}]
            /\ UNCHANGED << tasks, call_table >>
    /\ UNCHANGED << next_unique_id, write_lock, frames_out, inVars,
                    connVars, txVars, csVars, logVars >>

\* The per-Call timeout elapses while the command waits.
Call_Timeout(t) ==
    /\ tasks[t].pc = "waiting"
    /\ call_table' = expire(call_table, tasks[t].unique_id)
    /\ tasks' = [tasks EXCEPT ![t].pc = "idle",
                              ![t].result = CallOutcome(t, "Timeout", "")]
    /\ history' = [history EXCEPT !.timed_out = @ \cup {tasks[t].unique_id}]
    /\ UNCHANGED << next_unique_id, write_lock, frames_out, frames_in,
                    inVars, connVars, txVars, csVars, logVars >>

\* CP001 is connected as c1 and registered.
InitMsg ==
    /\ sessions = << >>
    /\ meter_values = << >>
    /\ charge_points = register_db([cp \in ChargePointIds |-> None], "CP001")
    /\ registry = register_dict([cp \in ChargePointIds |-> None], "CP001", "c1")
    /\ conn = [c \in Conns |-> IF c = "c1" THEN RunningConn ELSE NewConn]
    /\ accepted = << "c1" >>
    /\ handler = [c \in Conns |-> Idle]
    /\ last = NoResponse
    /\ issued = {}
    /\ calls = 0
    /\ op = NoCommand
    /\ result = NoResult
    /\ outbox = NoCall
    /\ cmds = 0
    /\ InitLayer

NextMsg ==
    \/ \E t \in Tasks :
          \/ Call_Register(t)
          \/ Call_Acquire(t)
          \/ Call_Write(t)
          \/ Call_Timeout(t)
    \/ \E i \in DOMAIN frames_out :
          \/ \E status \in ActionStatuses(frames_out[i].action) :
                ChargePoint_Responds(i, "CallResult", status)
          \/ ChargePoint_Responds(i, "CallError", "")
    \/ \E f \in frames_in : Receive(f)

SpecMsg == InitMsg /\ [][NextMsg]_vars

(***************************************************************************)
(* The read loop of a connection: what stands behind `await cp.start()`,   *)
(* with the handlers of app/handlers/charge_point.py taken as two store    *)
(* effects and a response.  The Calls of a connection are numbered in the  *)
(* order the charge point sends them.                                      *)
(***************************************************************************)
MaxFrames == 3

\* The number of Calls the charge point has sent on a connection.
FramesSent(c) ==
    Len(inbox[c]) + Cardinality(in_progress[c]) + Len(written[c])

\* A read loop that reads on while a handler runs.
ReadAhead(handlers) == TRUE
\* The read loop reads the next frame when the Call before it is answered.
read_ready(handlers) == handlers = {}

\* The charge point sends its next Call; it need not wait for an answer.
ChargePoint_Sends(c) ==
    /\ FramesSent(c) < MaxFrames
    /\ inbox' = [inbox EXCEPT ![c] = Append(@, FramesSent(c) + 1)]
    /\ UNCHANGED << in_progress, written, store_log, outVars, connVars,
                    txVars, csVars, logVars >>

\* The read loop takes the next Call off the socket and dispatches it.
Read(c) ==
    /\ inbox[c] # << >>
    /\ read_ready(in_progress[c])
    /\ inbox' = [inbox EXCEPT ![c] = Tail(@)]
    /\ in_progress' = [in_progress EXCEPT
          ![c] = @ \cup {[call |-> Head(inbox[c]), pc |-> "read"]}]
    /\ UNCHANGED << written, store_log, outVars, connVars, txVars, csVars, logVars >>

\* The handler's statements up to its next await on the store.
Handler_Store(c, h, pc, effect) ==
    /\ h \in in_progress[c]
    /\ in_progress' = [in_progress EXCEPT
          ![c] = (@ \ {h}) \cup {[h EXCEPT !.pc = pc]}]
    /\ store_log' = [store_log EXCEPT
          ![c] = Append(@, [call |-> h.call, effect |-> effect])]
    /\ UNCHANGED << inbox, written, outVars, connVars, txVars, csVars, logVars >>

\* async with get_db() as session: the first statement on the store.
Handler_Begin(c, h) ==
    /\ h.pc = "read"
    /\ Handler_Store(c, h, "begun", "select")

\* await session.commit()
Handler_Commit(c, h) ==
    /\ h.pc = "begun"
    /\ Handler_Store(c, h, "committed", "commit")

\* The handler returns and its CallResult is written.
Handler_Respond(c, h) ==
    /\ h \in in_progress[c]
    /\ h.pc = "committed"
    /\ in_progress' = [in_progress EXCEPT ![c] = @ \ {h}]
    /\ written' = [written EXCEPT ![c] = Append(@, h.call)]
    /\ UNCHANGED << inbox, store_log, outVars, connVars, txVars, csVars, logVars >>

NextRead ==
    \E c \in TxConns :
        \/ ChargePoint_Sends(c)
        \/ Read(c)
        \/ \E h \in in_progress[c] :
              \/ Handler_Begin(c, h)
              \/ Handler_Commit(c, h)
              \/ Handler_Respond(c, h)

SpecRead == InitTx /\ [][NextRead]_vars

(***************************************************************************)
(* The handlers that write the store without allocating anything:          *)
(* on_boot_notification, on_heartbeat, on_meter_values and                 *)
(* on_status_notification.  Each opens one store session, reads, and       *)
(* commits once; its except branch rolls back and the handler answers.     *)
(***************************************************************************)
MaxStoreCalls == 2

\* MeterValues.req: two readings for the Active session; a reading without
\* transactionId; readings for a transactionId that matches no Session, the
\* first one not a number; three readings for the Active session, the
\* middle one not a number.
MeterValuesPayloads ==
    { [transaction_id |-> Some(MinTxId),
       meter_value |->
           << [timestamp |-> WireZ(11),
               sampledValue |-> << [value |-> "2500", context |-> None],
                                   [value |-> "16000", context |-> None] >>] >>],
      [transaction_id |-> None,
       meter_value |->
           << [timestamp |-> WireZ(11),
               sampledValue |-> << [value |-> "2500", context |-> None] >>] >>],
      [transaction_id |-> Some(MaxTxId),
       meter_value |->
           << [timestamp |-> WireZ(11),
               sampledValue |-> << [value |-> "abc", context |-> None],
                                   [value |-> "2500", context |-> None] >>] >>],
      [transaction_id |-> Some(MinTxId),
       meter_value |->
           << [timestamp |-> WireZ(11),
               sampledValue |-> << [value |-> "16000", context |-> None] >>],
              [timestamp |-> WireZ(12),
               sampledValue |-> << [value |-> "abc", context |-> None],
                                   [value |-> "2500", context |-> None] >>] >>] }

\* StatusNotification.req
StatusNotificationPayloads ==
    { [connector_id |-> 0, status |-> "Faulted", error_code |-> "InternalError"],
      [connector_id |-> 1, status |-> "Charging", error_code |-> "NoError"],
      [connector_id |-> 0, status |-> "Unavailable", error_code |-> "NoError"] }

\* BootNotification.req
BootNotificationPayloads ==
    { [charge_point_vendor |-> "VendorX", charge_point_model |-> "ModelY"] }

\* connector_statuses.charge_point_id references charge_points.id.
ForeignKey(table, charge_point_id) == table[charge_point_id] # None

\* A commit that keeps the first pending row when it fails.
PartialCommit(table, rows, ok) ==
    IF ok \/ rows = << >> THEN table \o rows ELSE Append(table, rows[1])
\* session.add(...) for every row, then one session.commit(): all the rows
\* or, after the rollback, none.
commit_rows(table, rows, ok) == IF ok THEN table \o rows ELSE table

\* A failed commit whose changes to the loaded row stay.
NoRollback(before, after, ok) == after
\* await session.commit(), or await session.rollback() in the except branch
rollback(before, after, ok) == IF ok THEN after ELSE before

\* The Call a handler of this group is working on.
StoreCall(action, payload, found, row) ==
    [pc |-> "idle", action |-> action, payload |-> payload, found |-> found,
     row |-> row]

\* return call_result.<Action>(...), after the store session is closed.
\* fault: the store raised for a reason other than the rows themselves.
StoreRespond(c, call, committed, fault) ==
    /\ last' = [conn |-> c, call |-> call, kind |-> "CallResult",
                transaction_id |-> 0, id_tag_info |-> None,
                committed |-> committed, fault |-> fault,
                current_time |->
                    IF call.action \in {"BootNotification", "Heartbeat"}
                    THEN Some(utc_now_iso) ELSE None]
    /\ handler' = [handler EXCEPT ![c] = Idle]

\* The read loop hands the next Call of the connection to its handler.
StoreBegin(c) ==
    /\ conn[c].pc = "running"
    /\ handler[c].pc = "idle"
    /\ calls < MaxStoreCalls
    /\ calls' = calls + 1

\* The first await of a handler: the read succeeds and the handler goes on
\* to its commit, or it raises and the handler answers.
StoreLoad(c, call, dbOk, commit_pc) ==
    IF dbOk
    THEN /\ handler' = [handler EXCEPT ![c] = [call EXCEPT !.pc = commit_pc]]
         /\ UNCHANGED last
    ELSE StoreRespond(c, call, FALSE, TRUE)

\* on_meter_values up to the select of the Session (made only when a
\* transactionId is supplied).
MeterValues_Load(c, payload, dbOk) ==
    LET found == IF payload.transaction_id = None THEN 0
                 ELSE SessionByTxId(sessions, Get(payload.transaction_id))
    IN
    /\ StoreBegin(c)
    /\ StoreLoad(c, StoreCall("MeterValues", payload, found, FALSE), dbOk,
                 "meter_commit")
    /\ UNCHANGED << sessions, meter_values, issued, connVars, csVars,
                    msgVars, logVars >>

\* on_meter_values: the rows are added and committed.
MeterValues_Commit(c, dbOk) ==
    LET h == handler[c]
        rows == MeterValueRows(h.payload.meter_value,
                               IF h.found # 0 THEN Some(h.found) ELSE None,
                               "Sample.Periodic")
        ok == dbOk /\ NotNull(rows)
    IN
    /\ h.pc = "meter_commit"
    /\ meter_values' = commit_rows(meter_values, rows, ok)
    /\ StoreRespond(c, h, ok, ~dbOk)
    /\ UNCHANGED << sessions, issued, calls, connVars, csVars, msgVars,
                    logVars >>

\* on_status_notification up to session.get(ChargePointModel, self.id).
StatusNotification_Load(c, payload, dbOk) ==
    /\ StoreBegin(c)
    /\ StoreLoad(c, StoreCall("StatusNotification", payload, 0,
                              charge_points[ConnCp[c]] # None),
                 dbOk, "status_commit")
    /\ UNCHANGED << sessions, meter_values, issued, connVars, csVars,
                    msgVars, logVars >>

\* The row on_status_notification adds.
NewConnectorStatus(charge_point_id, payload) ==
    [charge_point_id |-> charge_point_id,
     connector_id |-> payload.connector_id, status |-> payload.status,
     error_code |-> payload.error_code, timestamp |-> utc_now_naive]

\* A handler that copies the status of any connector onto the row.
MirrorAnyConnector(table, charge_point_id, payload, row) ==
    IF row
    THEN [table EXCEPT ![charge_point_id] =
             Some([Get(@) EXCEPT !.status = payload.status])]
    ELSE table

\* if connector_id == 0 and charge_point: charge_point.status = status
MirrorStatus(table, charge_point_id, payload, row) ==
    IF payload.connector_id = 0 /\ row
    THEN [table EXCEPT ![charge_point_id] =
             Some([Get(@) EXCEPT !.status = payload.status])]
    ELSE table

\* on_status_notification: the row is added, the status mirrored, and both
\* committed.
StatusNotification_Commit(c, dbOk) ==
    LET h == handler[c]
        ok == dbOk /\ ForeignKey(charge_points, ConnCp[c])
    IN
    /\ h.pc = "status_commit"
    /\ connector_statuses' =
          commit_rows(connector_statuses,
                      << NewConnectorStatus(ConnCp[c], h.payload) >>, ok)
    /\ charge_points' =
          rollback(charge_points,
                   MirrorStatus(charge_points, ConnCp[c], h.payload, h.row),
                   ok)
    /\ StoreRespond(c, h, ok, ~dbOk)
    /\ UNCHANGED << sessions, meter_values, issued, calls, registry, conn,
                    accepted, csVars, msgVars >>

\* on_heartbeat up to session.get(ChargePointModel, self.id); for an absent
\* row the handler commits nothing and answers.
Heartbeat_Load(c, dbOk) ==
    LET call == StoreCall("Heartbeat", << >>, 0,
                          charge_points[ConnCp[c]] # None)
    IN
    /\ StoreBegin(c)
    /\ IF dbOk /\ ~call.row
       THEN StoreRespond(c, call, FALSE, FALSE)
       ELSE StoreLoad(c, call, dbOk, "heartbeat_commit")
    /\ UNCHANGED << sessions, meter_values, issued, connVars, csVars,
                    msgVars, logVars >>

\* A heartbeat that also resets the reported status.
HeartbeatResetsStatus(row) ==
    [row EXCEPT !.last_seen = Some(utc_now_naive), !.is_online = TRUE,
                !.status = "Available"]

\* charge_point.last_seen = utc_now_naive(); charge_point.is_online = True
HeartbeatRow(row) ==
    [row EXCEPT !.last_seen = Some(utc_now_naive), !.is_online = TRUE]

\* on_heartbeat: the commit.
Heartbeat_Commit(c, dbOk) ==
    LET h == handler[c] IN
    /\ h.pc = "heartbeat_commit"
    /\ charge_points' =
          rollback(charge_points,
                   [charge_points EXCEPT ![ConnCp[c]] = Some(HeartbeatRow(Get(@)))],
                   dbOk)
    /\ StoreRespond(c, h, dbOk, ~dbOk)
    /\ UNCHANGED << sessions, meter_values, issued, calls, registry, conn,
                    accepted, csVars, msgVars, logVars >>

\* on_boot_notification up to session.get(ChargePointModel, self.id).
BootNotification_Load(c, payload, dbOk) ==
    /\ StoreBegin(c)
    /\ StoreLoad(c, StoreCall("BootNotification", payload, 0,
                              charge_points[ConnCp[c]] # None),
                 dbOk, "boot_commit")
    /\ UNCHANGED << sessions, meter_values, issued, connVars, csVars,
                    msgVars, logVars >>

\* The row on_boot_notification creates.
BootedRow(payload) ==
    [is_online |-> TRUE, last_seen |-> Some(utc_now_naive),
     status |-> "Unknown", vendor |-> Some(payload.charge_point_vendor),
     model |-> Some(payload.charge_point_model),
     boot_status |-> Some("Accepted")]

\* The assignments on_boot_notification makes to the row it found.
RebootedRow(row, payload) ==
    [row EXCEPT !.vendor = Some(payload.charge_point_vendor),
                !.model = Some(payload.charge_point_model),
                !.is_online = TRUE,
                !.last_seen = Some(utc_now_naive),
                !.boot_status = Some("Accepted")]

\* on_boot_notification: the commit.  The insert of a row that another
\* session created since the read violates the primary key.
BootNotification_Commit(c, dbOk) ==
    LET h == handler[c]
        cp == ConnCp[c]
        ok == dbOk /\ (h.row \/ charge_points[cp] = None)
    IN
    /\ h.pc = "boot_commit"
    /\ charge_points' =
          rollback(charge_points,
                   [charge_points EXCEPT ![cp] =
                       IF h.row THEN Some(RebootedRow(Get(@), h.payload))
                       ELSE Some(BootedRow(h.payload))],
                   ok)
    /\ StoreRespond(c, h, ok, ~dbOk)
    /\ UNCHANGED << sessions, meter_values, issued, calls, registry, conn,
                    accepted, csVars, msgVars, logVars >>

\* The row of a charge point as its last disconnection left it, when the
\* store write of the present registration failed.
StaleChargePointRow ==
    [NewChargePointRow EXCEPT !.is_online = FALSE,
                              !.last_seen = Some(utc_now_naive - 1)]

\* CP001 is connected as c1 and has its row, written by this registration
\* or left by an earlier one; CP002 is connected as c2 and has none (the
\* store write of its registration failed).  CP001 has an Active and a
\* Completed session.
InitStore ==
    /\ sessions = CsSessions
    /\ meter_values = << >>
    /\ \E stale \in BOOLEAN :
          /\ charge_points = [cp \in ChargePointIds |->
                                 IF cp # "CP001" THEN None
                                 ELSE IF stale THEN Some(StaleChargePointRow)
                                 ELSE Some(NewChargePointRow)]
          /\ conn = [c \in Conns |->
                        IF c = "c1" THEN [RunningConn EXCEPT !.db_error = stale]
                        ELSE IF c = "c2"
                        THEN [RunningConn EXCEPT !.db_error = TRUE]
                        ELSE NewConn]
    /\ registry = [cp \in ChargePointIds |->
                      Some(CHOOSE c \in TxConns : ConnCp[c] = cp)]
    /\ accepted = << "c1", "c2" >>
    /\ handler = [c \in Conns |-> Idle]
    /\ last = NoResponse
    /\ issued = {}
    /\ calls = 0
    /\ op = NoCommand
    /\ result = NoResult
    /\ outbox = NoCall
    /\ cmds = 0
    /\ InitLayer

NextStore ==
    \E c \in TxConns, dbOk \in BOOLEAN :
        \/ \E payload \in MeterValuesPayloads :
              MeterValues_Load(c, payload, dbOk)
        \/ MeterValues_Commit(c, dbOk)
        \/ \E payload \in StatusNotificationPayloads :
              StatusNotification_Load(c, payload, dbOk)
        \/ StatusNotification_Commit(c, dbOk)
        \/ Heartbeat_Load(c, dbOk)
        \/ Heartbeat_Commit(c, dbOk)
        \/ \E payload \in BootNotificationPayloads :
              BootNotification_Load(c, payload, dbOk)
        \/ BootNotification_Commit(c, dbOk)
        \/ \E transaction_id \in TxIdDraws, req \in StopTransactionPayloads :
              StopTransaction_Load(c, transaction_id, req, dbOk)
        \/ \E tagOk \in BOOLEAN : StopTransaction_Commit(c, dbOk, tagOk)

SpecStore == InitStore /\ [][NextStore]_vars

(***************************************************************************)
(* Every handler that reads or writes the sessions table, and the operator *)
(* commands, together.                                                     *)
(***************************************************************************)
\* The Calls handled and the commands given in one run, together.
MaxLifeSteps == 2

\* CP001 is connected as c1 and registered, with an Active and a Completed
\* session; CP002 is connected as c2 and is not in the registry (main.py
\* registers no connection, and the teardown of another connection of the
\* same charge point removes the entry).
InitLife ==
    /\ sessions = CsSessions
    /\ meter_values = << >>
    /\ charge_points = [cp \in ChargePointIds |->
                           IF cp = "CP001" THEN Some(NewChargePointRow)
                           ELSE None]
    /\ registry = [cp \in ChargePointIds |->
                      IF cp = "CP001" THEN Some("c1") ELSE None]
    /\ conn = [c \in Conns |->
                  IF c = "c1" THEN RunningConn
                  ELSE IF c = "c2" THEN [RunningConn EXCEPT !.db_error = TRUE]
                  ELSE NewConn]
    /\ accepted = << "c1", "c2" >>
    /\ handler = [c \in Conns |-> Idle]
    /\ last = NoResponse
    /\ issued = {}
    /\ calls = 0
    /\ op = NoCommand
    /\ result = NoResult
    /\ outbox = NoCall
    /\ cmds = 0
    /\ InitLayer

\* The operator commands of CentralSystem.
NextCommands ==
    \/ \E charge_point_id \in ChargePointIds, id_tag \in AuthorizeTags :
          RemoteStart_Begin(charge_point_id, id_tag)
    \/ \E dbOk \in BOOLEAN : RemoteStart_CheckRow(dbOk)
    \/ \E dbOk \in BOOLEAN, sendOk \in BOOLEAN :
          RemoteStart_Validate(dbOk, sendOk)
    \/ \E reply \in Replies(RemoteStartStopStatuses) : RemoteStart_Reply(reply)
    \/ \E charge_point_id \in ChargePointIds,
          transaction_id \in CsTransactionIds, dbOk \in BOOLEAN :
          RemoteStop_Begin(charge_point_id, transaction_id, dbOk)
    \/ \E sendOk \in BOOLEAN : RemoteStop_Send(sendOk)
    \/ \E reply \in Replies(RemoteStartStopStatuses) : RemoteStop_Reply(reply)
    \/ \E charge_point_id \in ChargePointIds, args \in ChangeAvailabilityArgs :
          ChangeAvailability_Begin(charge_point_id, args)
    \/ \E dbOk \in BOOLEAN, sendOk \in BOOLEAN :
          ChangeAvailability_Resolve(dbOk, sendOk)
    \/ \E reply \in Replies(AvailabilityStatuses) :
          ChangeAvailability_Reply(reply)

NextLife ==
    /\ NextTx \/ NextStore \/ NextCommands
    /\ calls' + cmds' <= MaxLifeSteps

SpecLife == InitLife /\ [][NextLife]_vars

(***************************************************************************)
(* Properties.                                                             *)
(***************************************************************************)
\* a registered before b
Before(a, b) ==
    \E i, j \in DOMAIN accepted :
        i < j /\ accepted[i] = a /\ accepted[j] = b

\* The number of Calls answered so far: those read less those in progress.
Answered(count, h) ==
    count - Cardinality({c \in Conns : h[c].pc # "idle"})

\* The step in which connection c writes the response to its Call.
Responded(c) ==
    /\ last'.conn = c
    /\ Answered(calls', handler') = Answered(calls, handler) + 1

SessionsWithTxId(transaction_id) ==
    {i \in DOMAIN sessions : sessions[i].transaction_id = transaction_id}

\* C1 (as claimed): reconnect.  When session a of a charge point registered
\* before session b of the same charge point, a's finalizer has run
\* (unregister done) and b's register has run, then the registry entry of
\* the charge point is b and its row has is_online = true.  Stated for the
\* runs in which no store call of the two sessions raised.
C1_ReconnectKeepsNewSession ==
    \A a, b \in Conns :
        ( /\ a # b
          /\ ConnCp[a] = ConnCp[b]
          /\ Before(a, b)
          /\ conn[a].pc = "closed" /\ ~conn[a].db_error
          /\ conn[b].pc = "running" /\ ~conn[b].db_error )
        => /\ registry[ConnCp[b]] = Some(b)
           /\ charge_points[ConnCp[b]] # None
           /\ Get(charge_points[ConnCp[b]]).is_online

\* C2 (as claimed): for every (charge_point_id, connector_id) at most one
\* Session row has status Active.
C2_OneActiveSessionPerConnector ==
    \A i, j \in DOMAIN sessions :
        ( /\ sessions[i].charge_point_id = sessions[j].charge_point_id
          /\ sessions[i].connector_id = sessions[j].connector_id
          /\ sessions[i].status = "Active"
          /\ sessions[j].status = "Active" )
        => i = j

\* C3: under any interleaving of StartTransaction handlers no two Session
\* rows share a transaction_id, and every transactionId returned with
\* idTagInfo.status = Accepted identifies exactly one Session, the one that
\* request created (its charge point, connector and meter_start).
C3_TransactionIdsUnique ==
    /\ \A i, j \in DOMAIN sessions :
          sessions[i].transaction_id = sessions[j].transaction_id => i = j
    /\ ( /\ last.call.action = "StartTransaction"
         /\ last.id_tag_info # None
         /\ Get(last.id_tag_info).status = "Accepted" )
       => \E r \in issued : /\ r.transaction_id = last.transaction_id
                            /\ r.conn = last.conn
    /\ \A r \in issued :
          /\ SessionsWithTxId(r.transaction_id) = {r.session_id}
          /\ sessions[r.session_id].charge_point_id = ConnCp[r.conn]
          /\ sessions[r.session_id].connector_id = r.connector_id
          /\ sessions[r.session_id].meter_start = r.meter_start

\* Two handlers generated the same id concurrently; the second insert hit
\* the unique index.
C3_Witness ==
    /\ last.call.action = "StartTransaction"
    /\ ~last.committed
    /\ \E r \in issued : /\ r.transaction_id = last.call.transaction_id
                         /\ r.conn # last.conn

\* C4 (as claimed): when the tag resolves to Accepted and the insert or its
\* commit fails, the response has idTagInfo.status = Invalid and
\* transactionId = 0, and no Session row of the request is in the store.
C4_FailedInsertAnswersZero ==
    ( /\ last.call.action = "StartTransaction"
      /\ last.call.resolved = "Accepted"
      /\ ~last.committed )
    => /\ Get(last.id_tag_info).status = "Invalid"
       /\ last.transaction_id = 0
       /\ Len(sessions) = Cardinality(issued)

\* C5 (as claimed): StartTransaction creates a Session if and only if the
\* tag resolves to Accepted; here the half that fails: a tag resolving to
\* Accepted always yields the new Session and its transactionId.
C5_AcceptedTagAlwaysCreates ==
    ( /\ last.call.action = "StartTransaction"
      /\ last.call.resolved = "Accepted" )
    => /\ Get(last.id_tag_info).status = "Accepted"
       /\ \E i \in DOMAIN sessions :
             /\ sessions[i].transaction_id = last.transaction_id
             /\ sessions[i].charge_point_id = ConnCp[last.conn]
             /\ sessions[i].connector_id = last.call.connector_id
             /\ sessions[i].meter_start = last.call.meter

\* C5 (amended), the response: a Session is created exactly when the tag
\* resolves to Accepted and the insert commits, and then the response is
\* Accepted with the row's transaction_id; a tag that resolves to another
\* status is answered with transactionId = 0 and that status; a failed
\* insert is never answered Accepted.
C5_StartResponse ==
    last.call.action = "StartTransaction" =>
        /\ last.call.resolved # "Accepted" =>
              /\ ~last.committed
              /\ last.transaction_id = 0
              /\ Get(last.id_tag_info).status = last.call.resolved
        /\ last.committed =>
              /\ last.call.resolved = "Accepted"
              /\ Get(last.id_tag_info).status = "Accepted"
              /\ last.transaction_id \in 100000 .. 999999
              /\ \E i \in DOMAIN sessions :
                    /\ SessionsWithTxId(last.transaction_id) = {i}
                    /\ i = Len(sessions)
                    /\ sessions[i].status = "Active"
                    /\ sessions[i].charge_point_id = ConnCp[last.conn]
                    /\ sessions[i].connector_id = last.call.connector_id
                    /\ sessions[i].meter_start = last.call.meter
        /\ ~last.committed => Get(last.id_tag_info).status # "Accepted"

\* C5 (amended), the store: the step that answers a StartTransaction appends
\* exactly one row when the insert committed and leaves the Session rows
\* unchanged otherwise.
C5_StartStep ==
    \A c \in TxConns :
        (Responded(c) /\ last'.call.action = "StartTransaction") =>
            IF last'.committed
            THEN /\ Len(sessions') = Len(sessions) + 1
                 /\ SubSeq(sessions', 1, Len(sessions)) = sessions
            ELSE sessions' = sessions

\* C5 (amended): StartTransaction creates a Session if and only if the tag
\* resolves to Accepted and the insert commits.
C5_StartCreatesSessionIffCommitted ==
    []C5_StartResponse /\ [][C5_StartStep]_vars

C5_Witness ==
    /\ last.call.action = "StartTransaction"
    /\ last.committed
    /\ Len(sessions) = 2

\* C6 (as claimed): a Session that is Completed is never changed again by a
\* StopTransaction.
C6_CompletedSessionUnchanged ==
    [][\A i \in DOMAIN sessions :
          sessions[i].status = "Completed" => sessions'[i] = sessions[i]]_vars

\* C7: every Session whose meter_stop is set has
\* energy_consumed = (meter_stop - meter_start) / 1000.
C7_EnergyConsumed ==
    \A i \in DOMAIN sessions :
        sessions[i].meter_stop # None =>
            /\ sessions[i].energy_consumed # None
            /\ Get(sessions[i].energy_consumed).num * 1000 =
                  (Get(sessions[i].meter_stop) - sessions[i].meter_start)
                      * Get(sessions[i].energy_consumed).den

\* A stop of an already stopped session whose commit failed.
C7_Witness ==
    /\ last.call.action = "StopTransaction"
    /\ ~last.committed
    /\ last.call.found # 0
    /\ sessions[last.call.found].meter_stop # None
    /\ Get(sessions[last.call.found].meter_stop) # last.call.meter

\* C8 (as claimed): every Session with a stop_timestamp has
\* stop_timestamp >= start_timestamp.
C8_StopNotBeforeStart ==
    \A i \in DOMAIN sessions :
        sessions[i].stop_timestamp # None =>
            Get(sessions[i].stop_timestamp) >= sessions[i].start_timestamp

\* What the round trip leaves: one Session for the transaction id, Completed,
\* with the meter_start of the StartTransaction that was answered with this
\* id, the meter_stop of the stop and its reason (Local when none is sent).
RoundTripResult ==
    LET i == last.call.found IN
    /\ SessionsWithTxId(last.call.transaction_id) = {i}
    /\ sessions[i].status = "Completed"
    /\ sessions[i].meter_stop = Some(last.call.meter)
    /\ sessions[i].stop_reason =
          Some(IF last.call.reason = NoReason THEN "Local" ELSE last.call.reason)
    /\ \E r \in issued : /\ r.session_id = i
                         /\ r.transaction_id = last.call.transaction_id
                         /\ sessions[i].meter_start = r.meter_start

C10_StopStep ==
    \A c \in TxConns :
        ( /\ Responded(c)
          /\ last'.call.action = "StopTransaction"
          /\ SessionsWithTxId(last'.call.transaction_id) = {} )
        => /\ last'.kind = "CallResult"
           /\ sessions' = sessions

\* C10: a StopTransaction for an unknown transactionId is answered
\* successfully and neither creates nor changes a Session row.
C10_UnknownStopChangesNothing == [][C10_StopStep]_vars

C10_Witness ==
    /\ last.call.action = "StopTransaction"
    /\ last.committed
    /\ last.kind = "CallResult"
    /\ Len(sessions) >= 1
    /\ SessionsWithTxId(last.call.transaction_id) = {}

(***************************************************************************)
(* The Authorize predicate.                                                *)
(***************************************************************************)
\* The row of the tag of the last Authorize Call, if the table has one.
AuthorizedRows == {r \in IdTagRows : r.tag = last.call.id_tag}

PastExpiry(r) ==
    r.expiry_date # None /\ Get(r.expiry_date) < utc_now_naive

\* C11 (as claimed): a tag whose row is Blocked and whose expiry_date is in
\* the past is answered Blocked: Blocked is checked before Expired.
C11_BlockedBeforeExpired ==
    (/\ last.call.action = "Authorize"
     /\ last.committed
     /\ \E r \in AuthorizedRows : r.status = "Blocked" /\ PastExpiry(r))
    => Get(last.id_tag_info).status = "Blocked"

\* C12 (as claimed): the Authorize response status is Invalid when the tag
\* has no row or the lookup raised; Expired when the row has an expiry_date
\* earlier than now and is not Blocked; otherwise the row's stored status.
C12_AuthorizeDecisionTable ==
    last.call.action = "Authorize" =>
        Get(last.id_tag_info).status =
            IF ~last.committed \/ AuthorizedRows = {} THEN "Invalid"
            ELSE LET r == CHOOSE x \in AuthorizedRows : TRUE IN
                 IF PastExpiry(r) /\ r.status # "Blocked" THEN "Expired"
                 ELSE r.status

(***************************************************************************)
(* The operator commands.                                                  *)
(***************************************************************************)
RemoteStartResult == result.op.command = "remote_start_transaction"
RemoteStopResult == result.op.command = "remote_stop_transaction"
ChangeAvailabilityResult == result.op.command = "change_availability"

\* The tag has a row that the Authorize predicate resolves to Accepted.
ResolvesToAccepted(id_tag) ==
    \E r \in IdTagRows :
        r.tag = id_tag /\ r.status = "Accepted" /\ ~PastExpiry(r)

\* The ChargePoint row of cp says is_online = true.
RowOnline(cp) == charge_points[cp] # None /\ Get(charge_points[cp]).is_online

\* The step in which the command at position pc returns.
Returns(pc) == op.pc = pc /\ op'.pc = "idle"

\* C13 (as claimed): whenever the tag of remote_start_transaction does not
\* resolve to Accepted, for a connected charge point or not, the result is
\* success = false, status = Rejected, carries the tag's status in
\* id_tag_status, and no Call was sent.
C13_TagValidatedFirst ==
    (RemoteStartResult /\ ~ResolvesToAccepted(result.op.id_tag)) =>
        /\ result.success = Some(FALSE)
        /\ result.status = "Rejected"
        /\ result.id_tag_status # None
        /\ Get(result.id_tag_status) # "Accepted"
        /\ ~result.op.sent

\* What remote_start_transaction does for a charge point it did not find
\* in the registry: no Call, success = false, and an error chosen by the
\* is_online column of the row.
C14_RowStep(readOk) ==
    (Returns("start_row") /\ readOk) =>
        /\ result'.success = Some(FALSE)
        /\ ~result'.op.sent
        /\ outbox' = outbox
        /\ result'.error =
              IF RowOnline(op.charge_point_id)
              THEN Some("Charge point is online but not connected to this Central System process")
              ELSE Some("Charge point not connected")

\* C14 (as claimed): for a charge point absent from the registry
\* remote_start_transaction returns success = false without a Call, with
\* one error when the row has is_online = true and another when the row is
\* absent or has is_online = false.
C14_RowDecidesError == [][C14_RowStep(TRUE)]_vars

\* C14 (amended): the same, provided the read of the ChargePoint row does
\* not raise; when it raises the error is a third one, whatever the row
\* holds, and still no Call is sent.
C14_RowDecidesErrorWhenRead ==
    /\ [][C14_RowStep(result'.op.row # "error")]_vars
    /\ [][Returns("start_row") =>
            /\ result'.success = Some(FALSE)
            /\ ~result'.op.sent
            /\ outbox' = outbox
            /\ (result'.op.row = "error" =>
                   result'.error = Some("Failed to check charge point status"))]_vars

C14_Witness ==
    /\ RemoteStartResult
    /\ result.op.charge_point = None
    /\ result.op.row = "online"
    /\ RowOnline(result.op.charge_point_id)
    /\ result.error =
          Some("Charge point is online but not connected to this Central System process")

\* The sessions with the transaction id of the last remote_stop_transaction
\* that could be stopped from its charge point.
StoppableSessions ==
    {i \in DOMAIN sessions :
        /\ sessions[i].transaction_id = result.op.transaction_id
        /\ sessions[i].charge_point_id = result.op.charge_point_id
        /\ sessions[i].status = "Active"}

\* C15: remote_stop_transaction for a transaction id that no Session has,
\* or whose Session is of another charge point or is not Active, returns
\* success = false, status = Rejected without a Call, and the error is that
\* of the transaction check (never that of the registry lookup, which comes
\* later), also for a charge point that is not connected.
C15_TransactionCheckedFirst ==
    (RemoteStopResult /\ StoppableSessions = {}) =>
        /\ result.success = Some(FALSE)
        /\ result.status = "Rejected"
        /\ ~result.op.sent
        /\ result.op.response = None
        /\ result.error \in {Some("Transaction not found for charge point"),
                             Some("Transaction is not active"),
                             Some("Failed to validate transaction")}
        /\ (result.op.session # "error" =>
               result.error =
                  IF \E i \in DOMAIN sessions :
                        /\ sessions[i].transaction_id = result.op.transaction_id
                        /\ sessions[i].charge_point_id = result.op.charge_point_id
                  THEN Some("Transaction is not active")
                  ELSE Some("Transaction not found for charge point"))

\* The transaction of CP001 is refused when asked of CP002, which is not
\* connected, with the error of the transaction check.
C15_Witness ==
    /\ RemoteStopResult
    /\ result.op.charge_point_id = "CP002"
    /\ registry["CP002"] = None
    /\ \E i \in DOMAIN sessions :
          /\ sessions[i].transaction_id = result.op.transaction_id
          /\ sessions[i].charge_point_id = "CP001"
          /\ sessions[i].status = "Active"
    /\ result.error = Some("Transaction not found for charge point")

\* C16 (as claimed): for a valid Active transaction whose charge point is
\* absent from the registry, remote_stop_transaction returns the
\* "online but not connected to this process" error when the row has
\* is_online = true, and the "not connected" error when it has not.
C16_StopResolvesLikeStart ==
    [][(Returns("stop_lookup") /\ registry[op.charge_point_id] = None) =>
          result'.error =
             IF RowOnline(op.charge_point_id)
             THEN Some("Charge point is online but not connected to this Central System process")
             ELSE Some("Charge point not connected")]_vars

\* C17: change_availability with an availability_type other than Operative
\* and Inoperative, or a connector_id other than 0 and 1, returns status =
\* Rejected with an error, having read nothing from the store and sent no
\* Call, whichever the charge point.
C17_InvalidInputsRejected ==
    (/\ ChangeAvailabilityResult
     /\ \/ result.op.availability_type \notin {"Operative", "Inoperative"}
        \/ result.op.connector_id \notin {0, 1})
    => /\ result.status = "Rejected"
       /\ result.error # None
       /\ result.op.reads = 0
       /\ result.op.row = "unread"
       /\ ~result.op.sent

\* connector_id = 2 is refused for a charge point that is connected.
C17_Witness ==
    /\ ChangeAvailabilityResult
    /\ result.op.connector_id = 2
    /\ result.op.availability_type = "Operative"
    /\ result.op.charge_point_id = "CP001"
    /\ registry["CP001"] # None
    /\ RowOnline("CP001")
    /\ result.status = "Rejected"

\* The step of change_availability that resolves the charge point.
C18_ResolveStep ==
    (op.pc = "avail_get" /\ op' # op) =>
        LET resolved == /\ charge_points[op.charge_point_id] # None
                        /\ RowOnline(op.charge_point_id)
                        /\ registry[op.charge_point_id] # None
        IN
        /\ (outbox' # outbox \/ op'.sent) =>
              /\ resolved
              /\ outbox'.action = "ChangeAvailability"
              /\ outbox'.conn = Get(registry[op.charge_point_id])
        /\ ~resolved =>
              /\ op'.pc = "idle"
              /\ result'.status = "Rejected"
              /\ result'.error # None
              /\ ~result'.op.sent
              /\ outbox' = outbox

\* C18: change_availability sends its Call only when the ChargePoint row
\* exists, its is_online is true and the registry has an entry for the
\* charge point; otherwise it returns status = Rejected with an error and
\* sends nothing.  No other step of the command sends a Call.
C18_CallOnlyWhenResolved ==
    /\ [][C18_ResolveStep]_vars
    /\ [][(op.command = "change_availability" /\ op.pc # "avail_get")
             => outbox' = outbox]_vars

\* The Call is out and the command awaits the reply.
C18_Witness ==
    /\ op.pc = "avail_await"
    /\ outbox.action = "ChangeAvailability"
    /\ op.sent

\* C19: when the charge point answers with a CallResult the command returns
\* the status it received: change_availability returns Accepted, Rejected
\* or Scheduled as received, with no error; remote_start_transaction and
\* remote_stop_transaction return success = true with the received status,
\* Rejected included.
C19_StatusVerbatim ==
    (result.op.response # None /\ Get(result.op.response).kind = "CallResult")
    => /\ result.status = Get(result.op.response).status
       /\ result.error = None
       /\ ~result.raised
       /\ (ChangeAvailabilityResult => result.success = None)
       /\ (~ChangeAvailabilityResult => result.success = Some(TRUE))

C19_Witness ==
    /\ ChangeAvailabilityResult
    /\ result.op.response = Some([kind |-> "CallResult", status |-> "Scheduled"])
    /\ result.status = "Scheduled"

\* C20: no operator command lets an exception out: a command that did not
\* get a CallResult (a storage error, a send failure, a CallError reply, a
\* timeout, or a rejection before the Call) returns status = Rejected with
\* an error, and success = false for the two remote commands.
C20_NeverRaises ==
    /\ ~result.raised
    /\ (/\ result # NoResult
        /\ \/ result.op.response = None
           \/ Get(result.op.response).kind # "CallResult")
       => /\ result.status = "Rejected"
          /\ result.error # None
          /\ (~ChangeAvailabilityResult => result.success = Some(FALSE))

\* The reply to a RemoteStopTransaction Call did not come in time.
C20_Witness ==
    /\ RemoteStopResult
    /\ result.op.sent
    /\ result.op.response = Some([kind |-> "Timeout", status |-> ""])
    /\ result.status = "Rejected"

(***************************************************************************)
(* The registry and the charge_points table.                               *)
(***************************************************************************)
\* C26 (as claimed): register writes status = Available only into a row it
\* creates; the status of a row that already exists (Faulted, Charging,
\* Unavailable) is left as it is when the charge point registers.
C26_RegisterKeepsStatus ==
    [][\A cp \in ChargePointIds :
          (charge_points[cp] # None /\ charge_points'[cp] # None) =>
              Get(charge_points'[cp]).status = Get(charge_points[cp]).status]_vars

\* C30 (as claimed): in a server process that started with every row
\* offline, a ChargePoint row with is_online = true always has a registry
\* entry for its id.
C30_OnlineImpliesRegistered ==
    \A cp \in ChargePointIds : RowOnline(cp) => registry[cp] # None

(***************************************************************************)
(* The handshake.                                                          *)
(***************************************************************************)
\* The subprotocols an upgrade request names, whatever blanks surround them.
Requested(u) ==
    {UpgradeRequest[u].header[i] : i \in DOMAIN UpgradeRequest[u].header}
        \ {",", " "}

\* The connections that register_charge_point was called for.
Registered == {accepted[i] : i \in DOMAIN accepted}

\* C27: for every connection that register was called for, unregister is
\* called after its read loop ends, on every exit path (clean close,
\* transport error, handler exception, a failure while closing the socket):
\* once on_connect has returned, no registry entry refers to the connection.
C27_UnregisteredOnEveryExit ==
    \A u \in Upgrades :
        (u \in Registered /\ conn[u].pc = "closed") =>
            \A id \in AcceptIds : registry[id] # Some(u)

\* C28: a connection whose path gives an empty charge point id is rejected:
\* no session is created for it, and neither a registry entry nor a
\* charge_points row with the empty id exists.
C28_EmptyIdRejected ==
    /\ registry[""] = None
    /\ charge_points[""] = None
    /\ \A u \in Upgrades :
          PathId(strip(UpgradeRequest[u].path, "/")) = "" =>
              conn[u].pc \in {"new", "closed"} /\ u \notin Registered

\* C29: once on_connect has handled an upgrade request, a request that
\* names ocpp1.6 (alone or among several subprotocols in one header) was
\* accepted, and a request that does not name it was closed with code 1002
\* and never registered.
C29_SubprotocolNegotiated ==
    \A u \in Upgrades :
        conn[u].pc # "new" =>
            IF "ocpp1.6" \in Requested(u)
            THEN u \in Registered /\ conn[u].close_code # 1002
            ELSE /\ conn[u].pc = "closed"
                 /\ conn[u].close_code = 1002
                 /\ u \notin Registered

\* C25: in every entry point, a connection whose read loop is running (it
\* can handle an inbound Call) has been registered in the connection
\* registry before.
C25_RegisteredBeforeReadLoop ==
    \A u \in Upgrades : conn[u].pc = "running" => u \in Registered

(***************************************************************************)
(* The message layer under the operator commands.                          *)
(***************************************************************************)
\* The command is waiting for the reply to its Call.
AwaitsReply == op.pc \in {"start_await", "stop_await", "avail_await"}

\* C22: when the teardown of a connection is done (on_connect has
\* returned), no operator command is still waiting for the reply to a Call
\* it sent on that connection: teardown has cancelled the Call.
C22_TeardownCancelsCall ==
    \A c \in CsConns :
        conn[c].pc = "closed" => ~(AwaitsReply /\ op.charge_point = Some(c))

\* The responses that reached an awaiter.
DeliveredFrames == {d.frame : d \in history.delivered}

\* C21: a Call that met its timeout has no awaiter left in the table and
\* its command returned a failure outcome without raising; a response for
\* a timed-out UniqueId is never delivered to any Call: once read, it is
\* among the dropped responses.
C21_TimeoutThenDropped ==
    /\ \A unique_id \in history.timed_out :
          /\ unique_id \notin DOMAIN call_table
          /\ \A t \in Tasks :
                tasks[t].unique_id = unique_id /\ tasks[t].pc = "idle" =>
                    /\ ~tasks[t].result.raised
                    /\ tasks[t].result.success # Some(TRUE)
                    /\ tasks[t].result.status = "Rejected"
                    /\ tasks[t].result.error = Some("Timeout")
          /\ \A d \in history.delivered : d.frame.unique_id # unique_id
    /\ \A f \in frames_in \cup history.dropped \cup DeliveredFrames :
          f.unique_id \in history.answered
    /\ \A unique_id \in history.answered \cap history.timed_out :
          \E f \in frames_in \cup history.dropped : f.unique_id = unique_id

\* A Call timed out, its response arrived late and was dropped, and a later
\* Call on the same connection received its own CallResult.
C21_Witness ==
    \E unique_id \in history.timed_out :
        /\ \E f \in history.dropped : f.unique_id = unique_id
        /\ \E d \in history.delivered :
              /\ d.call > unique_id
              /\ d.frame.kind = "CallResult"
              /\ tasks[d.awaiter].result.success # Some(FALSE)
              /\ tasks[d.awaiter].result.error = None

\* C24: two commands that use the connection at the same time write their
\* frames one at a time, and each response is delivered to the command
\* whose Call carries the same UniqueId (the Call of its own Action).
C24_DemultiplexedByUniqueId ==
    /\ Cardinality({t \in Tasks : tasks[t].pc = "writing"}) <= 1
    /\ \A d \in history.delivered :
          /\ d.frame.unique_id = d.call
          /\ \E i \in DOMAIN frames_out :
                /\ frames_out[i].unique_id = d.call
                /\ frames_out[i].action = TaskAction(d.awaiter)

\* Both commands were waiting, and the later Call was answered first.
C24_Witness ==
    \E d \in history.delivered :
        /\ d.others # {}
        /\ \E u \in d.others : tasks[u].unique_id < d.call
        /\ \E e \in history.delivered : e.awaiter # d.awaiter

\* C23: on every connection the CallResults are written in the order the
\* Calls were sent and read, the only Call being handled is the one after
\* the last CallResult written (Call n+1 is not read before the CallResult
\* of Call n is written), and the store effects of two Calls of the
\* connection never interleave.
C23_InboundCallsSerial ==
    \A c \in TxConns :
        /\ \A i \in DOMAIN written[c] : written[c][i] = i
        /\ \A h \in in_progress[c] : h.call = Len(written[c]) + 1
        /\ \A i, j, k \in DOMAIN store_log[c] :
              (i < j /\ j < k /\ store_log[c][i].call = store_log[c][k].call)
                  => store_log[c][j].call = store_log[c][i].call

\* The charge point has sent Call 3 while Call 2 is being handled, after
\* the CallResult of Call 1; the other connection is in the middle of a
\* handler as well.
C23_Witness ==
    /\ written["c1"] = << 1 >>
    /\ in_progress["c1"] = {[call |-> 2, pc |-> "begun"]}
    /\ inbox["c1"] = << 3 >>
    /\ \E h \in in_progress["c2"] : h.pc = "begun"

(***************************************************************************)
(* MeterValues, StatusNotification, Heartbeat, BootNotification.           *)
(***************************************************************************)
\* The sampledValue entries of a MeterValues payload, in payload order.
RECURSIVE SampledValues(_)
SampledValues(meter_value) ==
    IF meter_value = << >> THEN << >>
    ELSE Head(meter_value).sampledValue \o SampledValues(Tail(meter_value))

\* The numbers among them, in payload order.
NumericValues(meter_value) ==
    LET all == SampledValues(meter_value)
        F[i \in 0..Len(all)] ==
            IF i = 0 THEN << >>
            ELSE IF all[i].value \in {"16000", "2500"}
                 THEN Append(F[i - 1], Get(float(all[i].value)))
                 ELSE F[i - 1]
    IN F[Len(all)]

\* The rows a step appended to a table.
Appended(before, after) == SubSeq(after, Len(before) + 1, Len(after))

\* The step in which the handler of connection c commits and answers.
Commits(c, pc) == handler[c].pc = pc /\ handler'[c].pc = "idle"

\* C31: with the store available, the commit step of a MeterValues Call
\* appends one row per numeric sampledValue, carrying the id of the Session
\* the transactionId resolves to, or session_id = null when the
\* transactionId is missing or matches no Session.
C31_MeterStep ==
    \A c \in TxConns :
        (Commits(c, "meter_commit") /\ ~last'.fault) =>
            LET h == handler[c]
                rows == Appended(meter_values, meter_values')
                numbers == NumericValues(h.payload.meter_value)
            IN /\ Len(meter_values') >= Len(meter_values)
               /\ [i \in DOMAIN rows |-> rows[i].value] = numbers
               /\ \A i \in DOMAIN rows :
                     rows[i].session_id =
                        IF h.found # 0 THEN Some(h.found) ELSE None

C31_OrphanRowsStored == [][C31_MeterStep]_vars

\* C32, the step: the commit step of a MeterValues Call keeps the rows
\* there were and appends either nothing or one row per numeric
\* sampledValue of the Call, in payload order; when the store is available
\* and the transactionId resolves to a Session, it appends them all,
\* whatever non-numeric values the Call holds.
C32_MeterStep ==
    \A c \in TxConns :
        Commits(c, "meter_commit") =>
            LET h == handler[c]
                rows == Appended(meter_values, meter_values')
                values == [i \in DOMAIN rows |-> rows[i].value]
                numbers == NumericValues(h.payload.meter_value)
            IN /\ Len(meter_values') >= Len(meter_values)
               /\ SubSeq(meter_values', 1, Len(meter_values)) = meter_values
               /\ rows = << >> \/ values = numbers
               /\ (~last'.fault /\ h.found # 0) => values = numbers

\* C32: the MeterValue rows of one MeterValues Call are persisted all or
\* none, in payload order, and a non-numeric value is skipped without
\* keeping the other values of the Call from being stored.
C32_BatchAtomicInOrder == [][C32_MeterStep]_vars

\* A Call with a non-numeric value between two numeric ones was committed:
\* the table ends with the two numeric readings, in payload order.
C32_Witness ==
    /\ last.conn # ""
    /\ last.call.action = "MeterValues"
    /\ last.committed
    /\ Len(SampledValues(last.call.payload.meter_value)) = 3
    /\ Len(meter_values) >= 2
    /\ meter_values[Len(meter_values) - 1].value = 16000
    /\ meter_values[Len(meter_values)].value = 2500

\* C33, the step: no step changes or removes a ConnectorStatus row, and the
\* commit step of a StatusNotification Call, the store being available,
\* appends exactly one row for the sending charge point.
C33_StatusStep ==
    /\ Len(connector_statuses') >= Len(connector_statuses)
    /\ SubSeq(connector_statuses', 1, Len(connector_statuses)) =
          connector_statuses
    /\ \A c \in TxConns :
          (Commits(c, "status_commit") /\ ~last'.fault) =>
              LET rows == Appended(connector_statuses, connector_statuses')
              IN /\ Len(rows) = 1
                 /\ rows[1].charge_point_id = ConnCp[c]
                 /\ rows[1].status = handler[c].payload.status

\* C33: every StatusNotification Call appends exactly one ConnectorStatus
\* row, also when the sending charge point has no ChargePoint row, and the
\* log is append-only.
C33_OneRowPerNotification == [][C33_StatusStep]_vars

\* The attributes of the ChargePoint row a StatusNotification for a
\* connector other than 0 leaves alone.
Standing(row) ==
    IF row = None THEN None
    ELSE << Get(row).status, Get(row).is_online, Get(row).boot_status >>

\* The effect of the commit step of a StatusNotification Call on the
\* ChargePoint row of the sender; mirrored(c) tells for which Calls with
\* connectorId = 0 the status is required on the row afterwards.
StatusMirrorStep(mirrored(_)) ==
    \A c \in TxConns :
        Commits(c, "status_commit") =>
            LET cp == ConnCp[c]
                payload == handler[c].payload
            IN /\ (payload.connector_id = 0 /\ charge_points'[cp] # None
                   /\ mirrored(c))
                      => Get(charge_points'[cp]).status = payload.status
               /\ payload.connector_id >= 1 =>
                      Standing(charge_points'[cp]) = Standing(charge_points[cp])

EveryCall(c) == TRUE

CommittedCall(c) == last'.committed

\* C34 as stated: after a StatusNotification with connectorId = 0 the
\* ChargePoint row's status equals the reported status, and one with
\* connectorId >= 1 leaves the row's status, is_online and boot_status
\* unchanged.
C34_MirrorOnConnectorZero == [][StatusMirrorStep(EveryCall)]_vars

\* C34, amended: after a StatusNotification with connectorId = 0 whose
\* commit succeeded, the ChargePoint row the handler found has the reported
\* status; one with connectorId >= 1 leaves the row's status, is_online and
\* boot_status unchanged.
C34_MirrorWhenCommitted == [][StatusMirrorStep(CommittedCall)]_vars

\* A committed StatusNotification for connector 0 changed the status of the
\* sender's row.
C34_Witness ==
    /\ last.conn # ""
    /\ last.call.action = "StatusNotification"
    /\ last.committed
    /\ last.call.payload.connector_id = 0
    /\ last.call.payload.status = "Faulted"
    /\ charge_points[ConnCp[last.conn]] # None
    /\ Get(charge_points[ConnCp[last.conn]]).status = "Faulted"

\* The handler of connection c returns its response in this step.
HandlerReturns(c, action) ==
    /\ handler' = [handler EXCEPT ![c] = Idle]
    /\ handler[c].pc # "idle" \/ calls' = calls + 1
    /\ last'.conn = c
    /\ last'.call.action = action

\* The effect of the step in which a Heartbeat handler returns; applied(c)
\* tells for which Calls the row must show the heartbeat afterwards.
HeartbeatStep(applied(_)) ==
    \A c \in TxConns :
        HandlerReturns(c, "Heartbeat") =>
            LET cp == ConnCp[c]
                before == charge_points[cp]
                after == charge_points'[cp]
            IN /\ last'.kind = "CallResult"
               /\ last'.current_time # None
               /\ before = None => after = None
               /\ before # None =>
                     /\ after # None
                     /\ [Get(after) EXCEPT !.is_online = Get(before).is_online,
                                           !.last_seen = Get(before).last_seen]
                           = Get(before)
                     /\ applied(c) =>
                           /\ Get(after).is_online
                           /\ Get(after).last_seen = Some(utc_now_naive)
                     /\ Get(before).is_online =>
                           [Get(after) EXCEPT !.last_seen = Get(before).last_seen]
                              = Get(before)
               /\ \A other \in ChargePointIds \ {cp} :
                     charge_points'[other] = charge_points[other]
               /\ UNCHANGED << sessions, meter_values, connector_statuses >>

\* C35 as stated: Heartbeat always returns a response with currentTime; for
\* an existing ChargePoint row it sets is_online and last_seen and changes
\* no other attribute; for an absent row it creates none; a repeated
\* Heartbeat changes nothing but timestamps.
C35_HeartbeatTouchesRow == [][HeartbeatStep(EveryCall)]_vars

\* C35, amended: as stated, but is_online and last_seen are set when the
\* store commit of the Call succeeds.
C35_HeartbeatWhenCommitted == [][HeartbeatStep(CommittedCall)]_vars

\* A committed Heartbeat brought a stale row online, leaving a status
\* reported since as it was.
C35_Witness ==
    /\ last.conn = "c1"
    /\ last.call.action = "Heartbeat"
    /\ last.committed
    /\ charge_points["CP001"] =
          Some([NewChargePointRow EXCEPT !.status = "Faulted"])
    /\ conn["c1"].db_error

\* The timestamps of the last response put on the wire: the expiryDate of
\* its idTagInfo and its currentTime.
WireTimestamps ==
    (IF last.id_tag_info # None /\ Get(last.id_tag_info).expiryDate # None
     THEN {Get(Get(last.id_tag_info).expiryDate)} ELSE {})
    \cup
    (IF "current_time" \in DOMAIN last /\ last.current_time # None
     THEN {Get(last.current_time)} ELSE {})

\* C36: every timestamp the Central System puts on the wire ends with Z,
\* the expiryDate inside idTagInfo and the currentTime of BootNotification
\* and Heartbeat responses included.
C36_WireTimestampsEndWithZ == \A ts \in WireTimestamps : ts.suffix = "Z"

\* The tables of the store.
StoreTables == << sessions, meter_values, charge_points, connector_statuses >>

\* The handlers that write to the store.
WritingActions ==
    {"BootNotification", "Heartbeat", "MeterValues", "StopTransaction",
     "StatusNotification"}

\* C37, the step: the store changes only in the step in which a handler
\* returns after a successful commit; a writing handler that returns
\* without one returns its CallResult (with currentTime for BootNotification
\* and Heartbeat), leaves every connection as it is, and leaves the store
\* as it was.
C37_FaultStep ==
    /\ StoreTables' # StoreTables =>
          \E c \in TxConns, action \in WritingActions :
              HandlerReturns(c, action) /\ last'.committed
    /\ \A c \in TxConns, action \in WritingActions :
          (HandlerReturns(c, action) /\ ~last'.committed) =>
              /\ last'.kind = "CallResult"
              /\ action \in {"BootNotification", "Heartbeat"} =>
                     last'.current_time = Some(utc_now_iso)
              /\ conn' = conn
              /\ StoreTables' = StoreTables

\* C37: when the store commit of a writing handler fails, the handler still
\* returns its normal response, the connection is not closed, and the store
\* is left as it was before the Call.
C37_FaultLeavesStoreAndConnection == [][C37_FaultStep]_vars

\* The commit of a BootNotification from a charge point without a row
\* failed: the handler answered, the connection runs, and there is still no
\* row.
C37_Witness ==
    /\ last.conn = "c2"
    /\ last.call.action = "BootNotification"
    /\ last.call.pc = "boot_commit"
    /\ last.fault
    /\ last.kind = "CallResult"
    /\ conn["c2"].pc = "running"
    /\ charge_points["CP002"] = None

\* The result of validate_id_tag kept by the last remote_start_transaction.
Validated == RemoteStartResult /\ result.op.validation # None

\* validate_id_tag returns no "reason" only for a valid tag or when its
\* lookup raised.
ValidationRead(v) == v.valid \/ v.reason # None

\* C38: the operator-side tag check and the Authorize predicate agree: for
\* the same row (and the same outcome of the lookup) validate_id_tag
\* returns the status _get_id_tag_info returns, and valid = true only when
\* that status is Accepted.
C38_ValidationAgreesWithAuthorize ==
    Validated =>
        LET v == Get(result.op.validation)
            info == get_id_tag_info(result.op.id_tag, ValidationRead(v))
        IN /\ v.status = info.status
           /\ v.valid => info.status = "Accepted"

(***************************************************************************)
(* Allocation of transaction ids.                                          *)
(***************************************************************************)
\* Some id the generator can draw is on no Session.
UnusedId ==
    \E transaction_id \in TxIdDraws :
        \A i \in DOMAIN sessions :
            sessions[i].transaction_id # transaction_id

\* The handler of c is inside a StartTransaction Call.
Allocating(c) == handler[c].pc \in {"start_generate", "start_commit"}

\* C39: transaction-id allocation terminates: while some id of the range is
\* unused, _generate_transaction_id returns (under fair random choice), and
\* so every StartTransaction Call gets its response.
C39_AllocationTerminates ==
    \A c \in TxConns :
        Allocating(c) ~> (handler[c].pc = "idle" \/ ~UnusedId)

\* A StartTransaction that had a taken id to collide with was answered with
\* an id of its own.
C39_Witness ==
    /\ last.call.action = "StartTransaction"
    /\ last.committed
    /\ Len(sessions) >= 2
    /\ sessions[Len(sessions)].transaction_id = last.transaction_id

(***************************************************************************)
(* The lifecycle of a Session.                                             *)
(***************************************************************************)
\* What never changes on a Session row after its creation.
SessionIdentity(s) ==
    << s.transaction_id, s.charge_point_id, s.connector_id, s.meter_start >>

\* C40, the step: no step removes a Session row, takes one from Completed
\* back to Active, or changes the transaction_id, charge_point_id,
\* connector_id or meter_start of one.
C40_SessionStep ==
    /\ Len(sessions') >= Len(sessions)
    /\ \A i \in DOMAIN sessions :
          /\ SessionIdentity(sessions'[i]) = SessionIdentity(sessions[i])
          /\ sessions[i].status = "Completed" =>
                 sessions'[i].status = "Completed"

\* C40: the lifecycle of a Session is monotonic over any sequence of
\* StartTransaction, StopTransaction, MeterValues, StatusNotification and
\* operator commands.
C40_SessionLifecycleMonotonic == [][C40_SessionStep]_vars

\* A Session was stopped twice: its row shows the second stop, a
\* Transaction.End reading of the first one is stored for it, and it is
\* Completed with the meter_start it was created with.
C40_Witness ==
    /\ sessions[1].status = "Completed"
    /\ sessions[1].meter_stop = Some(16000)
    /\ sessions[1].stop_reason = Some("Local")
    /\ SessionIdentity(sessions[1]) = SessionIdentity(CsSessions[1])
    /\ \E i \in DOMAIN meter_values :
          /\ meter_values[i].session_id = Some(1)
          /\ meter_values[i].context = "Transaction.End"

=============================================================================
